---- MODULE Spec2Model ----
(***************************************************************************)
(* A model of the judgment pipeline of ATC-LLM-Interface (package ali):    *)
(* the answer parser (alignment/utils.py), the judge gateway               *)
(* (alignment/llm.py), the filtering engine (alignment/filtering.py), the  *)
(* tournament sorting engine (alignment/sorting.py) and the orchestration  *)
(* wrappers of ali.py.                                                     *)
(*                                                                         *)
(* A judge text is a sequence of lexical symbols:                          *)
(*   "{" "}"      the two brace characters                                 *)
(*   "w"          a run of prose characters holding no brace, no newline   *)
(*   "nl"         a newline                                                *)
(*   "A:<v>"      the JSON member  "Answer": <v>                           *)
(*   "a:yes"      the JSON member  "answer": "yes"  (another key)          *)
(*   "E"          the JSON member  "Explanation": "..." (brace-free)       *)
(*   "Es" / "Ee"  the opening  "Explanation": "...  and the closing  ..."  *)
(*                of an explanation whose string holds the symbols between *)
(* Separators (commas, blanks) are part of the member symbols.             *)
(***************************************************************************)
EXTENDS Integers, Sequences, FiniteSets, TLC

VARIABLES
    text,            \* answer_parser: argument `text`
    valid_answers,   \* answer_parser: argument `valid_answers`
    p_pc,            \* answer_parser: "called" | "returned" | "raised"
    p_result,        \* answer_parser: what the call produced
    c_options_ok,    \* chat: isinstance(options, OllamaOptions)
    c_pc,            \* chat: "idle" | "called" | "loop" | "returned" | "raised"
    attempt,         \* chat: the loop variable `attempt`
    c_outcomes,      \* chat: what CLIENT.chat did on each request so far
    c_sleeps,        \* chat: the arguments of sleep(), in tenths of a second
    c_warned,        \* chat: LOGGER_LLM.warning was called
    c_result,        \* chat: what the call produced
    f_solutions,     \* filter_solutions / try_filtering: argument `solutions`
    f_done,          \* filter_solutions: solutions the loop has gone through
    valid_solutions, \* filter_solutions: the local `valid_solutions`
    keep_mask,       \* filter_solutions: the local `keep_mask`
    f_responses,     \* filter_solutions: what llm.chat did on each call so far
    f_pc,            \* filter_solutions: "idle" | "loop" | "returned" | "raised"
    f_result,        \* filter_solutions: what the call produced
    tf_pc,           \* try_filtering: "idle" | "called" | "filtering" | "returned"
    tf_result,       \* try_filtering: the list it returned
    s_input,         \* get_best_solution: argument `solutions`
    s_solutions,     \* get_best_solution: the local `solutions`
    failed_attempts, \* get_best_solution: the local `failed_attempts`
    s_requests,      \* get_best_solution: calls of llm.chat so far
    s_parsed,        \* get_best_solution: comparisons whose answer parsed
    cmp_failed,      \* get_best_solution: parse failures of the comparison
                     \* under way (since the list last changed)
    s_nonempty,      \* get_best_solution: some response was not the empty text
    s_pc,            \* get_best_solution: "idle" | "called" | "loop" | "returned" | "raised"
    s_result,        \* get_best_solution: what the call produced
    s_all_first,     \* get_best_solution: every response so far was a text
                     \* whose answer is "solution 1" in some letter case
    s_compared,      \* get_best_solution: the locals `s1, s2` of the last
                     \* iteration, <<>> before the first
    s_preference,    \* get_best_solution: the local `preference` of the last
                     \* iteration, <<>> if the parser gave none
    ts_pc,           \* try_sorting: "idle" | "called" | "sorting" | "returned" | "raised"
    ts_solutions,    \* try_sorting: argument `solutions`
    best_solution,   \* try_sorting: the local `best_solution`
    run,             \* ali: the global `run`
    sim_state,       \* main: bs.sim.state, "OP" | "END"
    simt,            \* main: bs.sim.simt, in seconds
    conf_list,       \* main: the local `conf_list`
    conflicts_under_resolution,          \* main: the tracker list
    conflicts_under_resolution_solution, \* main: the conflict-to-solution map
    m_pc,            \* main: "idle" | "head" | "clean" | "foreach" | "judging"
                     \*       | "ended" | "crashed"
    m_idx,           \* main: position of the `for idx, conflict` loop
    m_solutions,     \* main: the local `solutions`
    stack,           \* main: the commands handed to the BlueSky stack
    m_error,         \* main: the exception that ended main, "none" if none
    tracked_before,  \* main: the tracker list and map when the cycle began
    handled,         \* main: the conflicts handed to the solver in this cycle
    stopped_at,      \* main: where the cycle was when the signal came
    i_judge,         \* the text the judge gives back for each solution
    i_solutions,     \* filter_solutions called twice: the list of the first call
    i_first,         \* what the first call produced
    i_second,        \* what the second call produced, on the first result
    i_pc,            \* "idle" | "called" | "once" | "twice"
    pol_data,        \* parse_json: the local `data`, what json.loads gave
    pol_pc,          \* ATCPolicy(): "idle" | "called" | "built" | "raised"
    pol_result,      \* ATCPolicy(): the exception and the two rule lists
    o_kwargs,        \* OllamaOptions(): the keyword arguments
    o_given,         \* what the caller hands to chat / generate as `options`
    o_pc,            \* OllamaOptions(): "idle" | "called" | "built" | "raised"
                     \*                  | "handed"
    o_result,        \* OllamaOptions(): the exception, or the fields set
    t_judge,         \* a judge whose answer depends on the two solutions shown
    t_solutions,     \* get_best_solution with that judge: argument `solutions`
    t_pc,            \* "idle" | "called" | "returned"
    t_result         \* what that call returned

parserVars == <<text, valid_answers, p_pc, p_result>>

chatVars == <<c_options_ok, c_pc, attempt, c_outcomes, c_sleeps, c_warned, c_result>>

filterVars == <<f_solutions, f_done, valid_solutions, keep_mask, f_responses,
                f_pc, f_result, tf_pc, tf_result>>

sortVars == <<s_input, s_solutions, failed_attempts, s_requests, s_parsed,
              cmp_failed, s_nonempty, s_pc, s_result, s_all_first, s_compared,
              s_preference>>

trySortVars == <<ts_pc, ts_solutions, best_solution>>

trackerVars == <<conflicts_under_resolution, conflicts_under_resolution_solution>>

mainVars == <<run, sim_state, simt, conf_list, trackerVars, m_pc, m_idx,
              m_solutions, stack, m_error, tracked_before, handled, stopped_at>>

refilterVars == <<i_judge, i_solutions, i_first, i_second, i_pc>>

policyVars == <<pol_data, pol_pc, pol_result>>

optionsVars == <<o_kwargs, o_given, o_pc, o_result>>

tournamentVars == <<t_judge, t_solutions, t_pc, t_result>>

setupVars == <<policyVars, optionsVars, tournamentVars>>

vars == <<parserVars, chatVars, filterVars, sortVars, trySortVars, mainVars,
          refilterVars, setupVars>>

(***************************************************************************)
(* Bounds of the model.                                                    *)
(***************************************************************************)
MaxProse == 2

MaxSolutions == 3

(***************************************************************************)
(* Small helpers.                                                          *)
(***************************************************************************)
SetMin(S) == CHOOSE x \in S : \A y \in S : x <= y

SetMax(S) == CHOOSE x \in S : \A y \in S : x >= y

SeqsUpTo(A, n) == UNION {[1..k -> A] : k \in 0..n}

(***************************************************************************)
(* Values a JSON member "Answer" can hold, as character sequences.         *)
(***************************************************************************)
None == <<"None">>

AnswerSyms == {"A:yes", "A:Yes_", "A:no", "A:maybe", "A:null",
               "A:Solution 1", "A:solution 2", "A:SOLUTION 1"}

MemberValue(sym) ==
    CASE sym = "A:yes"        -> <<"y", "e", "s">>
      [] sym = "A:Yes_"       -> <<" ", "Y", "e", "S", " ">>
      [] sym = "A:no"         -> <<"n", "o">>
      [] sym = "A:maybe"      -> <<"m", "a", "y", "b", "e">>
      [] sym = "A:Solution 1" -> <<"S", "o", "l", "u", "t", "i", "o", "n", " ", "1">>
      [] sym = "A:solution 2" -> <<"s", "o", "l", "u", "t", "i", "o", "n", " ", "2">>
      [] sym = "A:SOLUTION 1" -> <<"S", "O", "L", "U", "T", "I", "O", "N", " ", "1">>
      [] OTHER                -> None

\* str.lower() on one character
LowerChar(c) ==
    CASE c = "Y" -> "y"
      [] c = "E" -> "e"
      [] c = "S" -> "s"
      [] c = "N" -> "n"
      [] c = "O" -> "o"
      [] c = "L" -> "l"
      [] c = "U" -> "u"
      [] c = "T" -> "t"
      [] c = "I" -> "i"
      [] OTHER   -> c

Lower(s) == [i \in 1..Len(s) |-> LowerChar(s[i])]

\* str.strip(): leading and trailing blanks removed
Strip(s) ==
    LET keep == {i \in 1..Len(s) : s[i] # " "}
    IN  IF keep = {} THEN <<>> ELSE SubSeq(s, SetMin(keep), SetMax(keep))

(***************************************************************************)
(* answer_pattern: "{", then one or more characters that are not "{"       *)
(* (greedy), then "}"; re.search returns the leftmost match.               *)
(***************************************************************************)
RemoveNewlines(t) == SelectSeq(t, LAMBDA s : s # "nl")

\* the last position the greedy [^{]+ can reach when the match starts at i
SegmentEnd(t, i) ==
    LET opens == {j \in (i + 1)..Len(t) : t[j] = "{"}
    IN  IF opens = {} THEN Len(t) ELSE SetMin(opens) - 1

\* the position of the closing bracket of the match starting at i, 0 if none
MatchEndAt(t, i) ==
    LET closes == {k \in (i + 2)..SegmentEnd(t, i) : t[k] = "}"}
    IN  IF closes = {} THEN 0 ELSE SetMax(closes)

\* variant: the match ends at the first closing bracket (non-greedy)
answer_pattern_first_close(t) ==
    LET firstClose(i) ==
            LET closes == {k \in (i + 2)..SegmentEnd(t, i) : t[k] = "}"}
            IN  IF closes = {} THEN 0 ELSE SetMin(closes)
        starts == {i \in 1..Len(t) : t[i] = "{" /\ firstClose(i) # 0}
    IN  IF starts = {}
        THEN [found |-> FALSE, span |-> <<>>]
        ELSE [found |-> TRUE,
              span  |-> SubSeq(t, SetMin(starts), firstClose(SetMin(starts)))]

answer_pattern(t) ==
    LET starts == {i \in 1..Len(t) : t[i] = "{" /\ MatchEndAt(t, i) # 0}
    IN  IF starts = {}
        THEN [found |-> FALSE, span |-> <<>>]
        ELSE [found |-> TRUE,
              span  |-> SubSeq(t, SetMin(starts), MatchEndAt(t, SetMin(starts)))]

(***************************************************************************)
(* json.loads on a span: a JSON object is "{", members, "}" and nothing    *)
(* else; of a repeated key the last member wins.                           *)
(***************************************************************************)
MemberSyms == AnswerSyms \cup {"a:yes", "E"}

RECURSIVE IsMembers(_, _)
IsMembers(s, inString) ==
    IF s = <<>> THEN ~inString
    ELSE IF inString
         THEN IF Head(s) = "Ee"
              THEN IsMembers(Tail(s), FALSE)
              ELSE Head(s) \in {"w", "{", "}"} /\ IsMembers(Tail(s), TRUE)
         ELSE IF Head(s) = "Es"
              THEN IsMembers(Tail(s), TRUE)
              ELSE Head(s) \in MemberSyms /\ IsMembers(Tail(s), FALSE)

IsJsonObject(span) ==
    /\ Len(span) >= 2
    /\ span[1] = "{"
    /\ span[Len(span)] = "}"
    /\ IsMembers(SubSeq(span, 2, Len(span) - 1), FALSE)

\* j.get("Answer") of the parsed object: None when the key is absent or null
JsonGetAnswer(span) ==
    LET idx == {i \in 1..Len(span) : span[i] \in AnswerSyms}
    IN  IF idx = {} THEN None ELSE MemberValue(span[SetMax(idx)])

json_loads(span) ==
    IF IsJsonObject(span)
    THEN [ok |-> TRUE, Answer |-> JsonGetAnswer(span)]
    ELSE [ok |-> FALSE, Answer |-> None]

(***************************************************************************)
(* answer_parser(text, valid_answers)                                      *)
(***************************************************************************)
VALID_FILTERING_ANSWERS == {<<"y", "e", "s">>, <<"n", "o">>}

VALID_SORTING_ANSWERS ==
    {<<"s", "o", "l", "u", "t", "i", "o", "n", " ", "1">>,
     <<"s", "o", "l", "u", "t", "i", "o", "n", " ", "2">>}

Raise(exc, why) ==
    [raised |-> exc, why |-> why, answer |-> None, explanation |-> <<>>]

Return(answer) ==
    [raised |-> "none", why |-> "none", answer |-> answer, explanation |-> <<>>]

\* variant: the membership test of the cleaned answer is left out
answer_parser_no_membership(t, valid) ==
    LET m == answer_pattern(RemoveNewlines(t))
        j == json_loads(m.span)
        clean_answer == Strip(Lower(j.Answer))
    IN  IF ~m.found THEN Raise("InvalidAnswerError", "no span")
        ELSE IF ~j.ok THEN Raise("InvalidAnswerError", "not json")
        ELSE IF j.Answer = None THEN Raise("InvalidAnswerError", "no answer")
        ELSE Return(clean_answer)

\* variant: the final raise is missing, a text without span yields (None, "")
answer_parser_no_final_raise(t, valid) ==
    LET m == answer_pattern(RemoveNewlines(t))
        j == json_loads(m.span)
        clean_answer == Strip(Lower(j.Answer))
    IN  IF ~m.found THEN Return(None)
        ELSE IF ~j.ok THEN Raise("InvalidAnswerError", "not json")
        ELSE IF j.Answer = None THEN Raise("InvalidAnswerError", "no answer")
        ELSE IF clean_answer \in valid THEN Return(clean_answer)
        ELSE Raise("InvalidAnswerError", "invalid answer")

answer_parser(t, valid) ==
    LET m == answer_pattern(RemoveNewlines(t))
        j == json_loads(m.span)
        clean_answer == Strip(Lower(j.Answer))
    IN  IF ~m.found THEN Raise("InvalidAnswerError", "no span")
        ELSE IF ~j.ok THEN Raise("InvalidAnswerError", "not json")
        ELSE IF j.Answer = None THEN Raise("InvalidAnswerError", "no answer")
        ELSE IF clean_answer \in valid THEN Return(clean_answer)
        ELSE Raise("InvalidAnswerError", "invalid answer")

(***************************************************************************)
(* The parser on its own: a text made of prose, an optional judge object   *)
(* and more prose is handed to answer_parser.                              *)
(***************************************************************************)
ProseSyms == {"{", "}", "w", "nl"}

Prose == SeqsUpTo(ProseSyms, MaxProse)

YesObject == <<"{", "A:yes", "E", "}">>

JudgeObjects ==
    {<<>>,
     YesObject,
     <<"{", "nl", "E", "A:no", "nl", "}">>,
     <<"{", "A:Yes_", "}">>,
     <<"{", "A:yes", "Es", "w", "}", "Ee", "}">>,
     <<"{", "A:yes", "Es", "{", "w", "Ee", "}">>,
     <<"{", "A:maybe", "E", "}">>,
     <<"{", "A:null", "E", "}">>,
     <<"{", "a:yes", "E", "}">>,
     <<"{", "E", "}">>,
     <<"{", "A:no", "A:yes", "}">>,
     <<"{", "A:yes", "w", "}">>,
     <<"{", "A:Solution 1", "E", "}">>,
     <<"{", "E", "A:solution 2", "}">>}

ParserInit ==
    /\ \E pre \in Prose, obj \in JudgeObjects, post \in Prose :
           text = pre \o obj \o post
    /\ valid_answers \in {VALID_FILTERING_ANSWERS, VALID_SORTING_ANSWERS}
    /\ p_pc = "called"
    /\ p_result = Return(None)

Parse ==
    /\ p_pc = "called"
    /\ p_result' = answer_parser(text, valid_answers)
    /\ p_pc' = IF p_result'.raised = "none" THEN "returned" ELSE "raised"
    /\ UNCHANGED <<text, valid_answers>>
    /\ UNCHANGED <<chatVars, filterVars, sortVars, trySortVars, mainVars, refilterVars, setupVars>>

ParserIdle ==
    /\ text = <<>>
    /\ valid_answers = {}
    /\ p_pc = "idle"
    /\ p_result = Return(None)

(***************************************************************************)
(* llm.chat: the judge gateway.  CLIENT.chat either answers with a content *)
(* text or raises; the texts are the ones the engines below are fed with.  *)
(***************************************************************************)
N_RETRIES == 5

EmptyText == <<>>

TextNo == <<"w", "nl", "{", "nl", "E", "A:no", "nl", "}", "nl", "w">>

TextYes == <<"w", "nl", "{", "nl", "E", "A:Yes_", "nl", "}", "nl", "w">>

TextMaybe == <<"{", "E", "A:maybe", "}">>

TextProse == <<"w">>

TextSolution1 == <<"w", "nl", "{", "nl", "E", "A:Solution 1", "nl", "}", "nl", "w">>

TextSolution2 == <<"{", "E", "A:solution 2", "}">>

TextSOLUTION1 == <<"{", "A:SOLUTION 1", "}">>

FilterTexts == {TextNo, TextYes, TextMaybe, TextProse}

SortTexts == {TextSolution1, TextSolution2, TextSOLUTION1, TextMaybe, TextProse}

\* the exceptions CLIENT.chat can raise: those of the except clause of
\* chat, and one that is none of them
ClientExceptions ==
    {"ResponseError", "ValidationError", "TypeError", "ValueError",
     "ConnectionError"}

Answered(t) == [exc |-> "none", content |-> t]

Failed(e) == [exc |-> e, content |-> EmptyText]

ClientOutcomes(texts) ==
    {Answered(t) : t \in texts} \cup {Failed(e) : e \in ClientExceptions}

\* variant: TypeError is missing from the except clause
CaughtByChat_no_TypeError == {"ResponseError", "ValidationError", "ValueError"}

\* the except clause of chat
CaughtByChat == {"ResponseError", "ValidationError", "TypeError", "ValueError"}

\* variant: the delay doubles with each attempt
SleepTenths_doubling(a) == IF 2 ^ a < 50 THEN 2 ^ a ELSE 50

\* min(0.1 + attempt, 5), in tenths of a second
SleepTenths(a) == IF 1 + 10 * a < 50 THEN 1 + 10 * a ELSE 50

ChatReturn(t) == [raised |-> "none", sequences |-> <<t>>]

ChatRaise(e) == [raised |-> e, sequences |-> <<>>]

ChatInit ==
    /\ c_options_ok \in BOOLEAN
    /\ c_pc = "called"
    /\ attempt = 0
    /\ c_outcomes = <<>>
    /\ c_sleeps = <<>>
    /\ c_warned = FALSE
    /\ c_result = ChatRaise("none")

ChatIdle ==
    /\ c_options_ok = TRUE
    /\ c_pc = "idle"
    /\ attempt = 0
    /\ c_outcomes = <<>>
    /\ c_sleeps = <<>>
    /\ c_warned = FALSE
    /\ c_result = ChatRaise("none")

\* assert isinstance(options, OllamaOptions)
ChatCall ==
    /\ c_pc = "called"
    /\ IF c_options_ok
       THEN c_pc' = "loop" /\ c_result' = c_result
       ELSE c_pc' = "raised" /\ c_result' = ChatRaise("AssertionError")
    /\ UNCHANGED <<c_options_ok, attempt, c_outcomes, c_sleeps, c_warned>>
    /\ UNCHANGED <<parserVars, filterVars, sortVars, trySortVars, mainVars, refilterVars, setupVars>>

\* one iteration of `for attempt in range(N_RETRIES)`
ChatAttempt ==
    /\ c_pc = "loop"
    /\ attempt < N_RETRIES
    /\ \E o \in ClientOutcomes(FilterTexts \cup {TextSolution1}) :
           /\ c_outcomes' = Append(c_outcomes, o)
           /\ IF o.exc = "none"
              THEN /\ c_pc' = "returned"
                   /\ c_result' = ChatReturn(o.content)
                   /\ UNCHANGED <<attempt, c_sleeps>>
              ELSE IF o.exc \in CaughtByChat
              THEN /\ c_sleeps' = Append(c_sleeps, SleepTenths(attempt))
                   /\ attempt' = attempt + 1
                   /\ UNCHANGED <<c_pc, c_result>>
              ELSE /\ c_pc' = "raised"
                   /\ c_result' = ChatRaise(o.exc)
                   /\ UNCHANGED <<attempt, c_sleeps>>
    /\ UNCHANGED <<c_options_ok, c_warned>>
    /\ UNCHANGED <<parserVars, filterVars, sortVars, trySortVars, mainVars, refilterVars, setupVars>>

\* the loop is over: the warning, and the empty text
ChatExhausted ==
    /\ c_pc = "loop"
    /\ attempt = N_RETRIES
    /\ c_warned' = TRUE
    /\ c_pc' = "returned"
    /\ c_result' = ChatReturn(EmptyText)
    /\ UNCHANGED <<c_options_ok, attempt, c_outcomes, c_sleeps>>
    /\ UNCHANGED <<parserVars, filterVars, sortVars, trySortVars, mainVars, refilterVars, setupVars>>

(***************************************************************************)
(* What a caller of llm.chat sees: a text of the client, the empty text of *)
(* the exhausted gateway, or an exception chat does not catch.             *)
(***************************************************************************)
ChatOutcomes(texts) ==
    {ChatReturn(t) : t \in texts \cup {EmptyText}}
        \cup {ChatRaise(e) : e \in ClientExceptions \ CaughtByChat}

(***************************************************************************)
(* filtering.filter_solutions, called by ali.try_filtering.  Solutions are *)
(* named by identifiers; ground_truth is None on this call.                *)
(***************************************************************************)
SolutionIds == {"ABC123", "DEF123", "GHI123"}

SolutionLists == SeqsUpTo(SolutionIds, MaxSolutions)

Result(v) == [raised |-> "none", value |-> v]

Raised(e) == [raised |-> e, value |-> <<>>]

\* variant: the two branches are swapped
FilterDecision_swapped(violation) ==
    CASE violation = <<"y", "e", "s">> -> "keep"
      [] violation = <<"n", "o">>      -> "drop"
      [] OTHER                         -> "raise"

\* the branches on `violation`
FilterDecision(violation) ==
    CASE violation = <<"y", "e", "s">> -> "drop"
      [] violation = <<"n", "o">>      -> "keep"
      [] OTHER                         -> "raise"

\* variant: an answer that does not parse counts as "no"
FilterOne_absorbing(response) ==
    LET parsed == answer_parser(response, VALID_FILTERING_ANSWERS)
    IN  IF parsed.raised # "none" THEN "keep"
        ELSE FilterDecision(parsed.answer)

\* the decision on one solution, from the text of the judge
FilterOne(response) ==
    LET parsed == answer_parser(response, VALID_FILTERING_ANSWERS)
    IN  IF parsed.raised # "none" THEN "raise"
        ELSE FilterDecision(parsed.answer)

FilterInit ==
    /\ f_solutions \in SolutionLists
    /\ f_done = 0
    /\ valid_solutions = <<>>
    /\ keep_mask = <<>>
    /\ f_responses = <<>>
    /\ f_pc = "idle"
    /\ f_result = Result(<<>>)
    /\ tf_pc = "called"
    /\ tf_result = <<>>

FilterIdle ==
    /\ f_solutions = <<>>
    /\ f_done = 0
    /\ valid_solutions = <<>>
    /\ keep_mask = <<>>
    /\ f_responses = <<>>
    /\ f_pc = "idle"
    /\ f_result = Result(<<>>)
    /\ tf_pc = "idle"
    /\ tf_result = <<>>

\* try_filtering enters its try block and calls filter_solutions
TryFilteringCall ==
    /\ tf_pc = "called"
    /\ tf_pc' = "filtering"
    /\ f_pc' = "loop"
    /\ f_done' = 0
    /\ valid_solutions' = <<>>
    /\ keep_mask' = <<>>
    /\ UNCHANGED <<f_solutions, f_responses, f_result, tf_result>>
    /\ UNCHANGED <<parserVars, chatVars, sortVars, trySortVars, mainVars, refilterVars, setupVars>>

\* one iteration of `for s in solutions`
FilterStep ==
    /\ f_pc = "loop"
    /\ f_done < Len(f_solutions)
    /\ \E r \in ChatOutcomes(FilterTexts) :
           /\ f_responses' = Append(f_responses, r)
           /\ IF r.raised # "none"
              THEN /\ f_pc' = "raised"
                   /\ f_result' = Raised(r.raised)
                   /\ UNCHANGED <<f_done, valid_solutions, keep_mask>>
              ELSE LET decision == FilterOne(r.sequences[1])
                       s == f_solutions[f_done + 1]
                   IN  IF decision = "raise"
                       THEN /\ f_pc' = "raised"
                            /\ f_result' = Raised("InvalidAnswerError")
                            /\ UNCHANGED <<f_done, valid_solutions, keep_mask>>
                       ELSE /\ valid_solutions' =
                                   IF decision = "keep"
                                   THEN Append(valid_solutions, s)
                                   ELSE valid_solutions
                            /\ keep_mask' = Append(keep_mask, decision = "keep")
                            /\ f_done' = f_done + 1
                            /\ UNCHANGED <<f_pc, f_result>>
    /\ UNCHANGED <<f_solutions, tf_pc, tf_result>>
    /\ UNCHANGED <<parserVars, chatVars, sortVars, trySortVars, mainVars, refilterVars, setupVars>>

\* the loop is over: success stays True, valid_solutions is returned
FilterReturn ==
    /\ f_pc = "loop"
    /\ f_done = Len(f_solutions)
    /\ f_pc' = "returned"
    /\ f_result' = Result(valid_solutions)
    /\ UNCHANGED <<f_solutions, f_done, valid_solutions, keep_mask, f_responses,
                   tf_pc, tf_result>>
    /\ UNCHANGED <<parserVars, chatVars, sortVars, trySortVars, mainVars, refilterVars, setupVars>>

(***************************************************************************)
(* filter_solutions as a function of the list, under a judge whose text    *)
(* depends on the solution of the prompt and on nothing else.              *)
(***************************************************************************)
Judges == [SolutionIds -> ChatOutcomes(FilterTexts)]

\* variant: the prompt carries the next solution of the list
Ask_next_solution(judge, solutions, i) ==
    judge[solutions[(i % Len(solutions)) + 1]]

\* llm.chat on the prompt made of solutions[i] and of the rules
Ask(judge, solutions, i) == judge[solutions[i]]

\* the iterations of `for s in solutions` from the i-th on
RECURSIVE FilterFrom(_, _, _, _)
FilterFrom(judge, solutions, i, valid) ==
    IF i > Len(solutions) THEN Result(valid)
    ELSE LET r == Ask(judge, solutions, i)
         IN  IF r.raised # "none" THEN Raised(r.raised)
             ELSE LET decision == FilterOne(r.sequences[1])
                  IN  IF decision = "raise" THEN Raised("InvalidAnswerError")
                      ELSE FilterFrom(judge, solutions, i + 1,
                                      IF decision = "keep"
                                      THEN Append(valid, solutions[i])
                                      ELSE valid)

filter_solutions(judge, solutions) == FilterFrom(judge, solutions, 1, <<>>)

RefilterInit ==
    /\ i_judge \in Judges
    /\ i_solutions \in SolutionLists
    /\ i_first = Raised("none")
    /\ i_second = Raised("none")
    /\ i_pc = "called"

RefilterIdle ==
    /\ i_judge = <<>>
    /\ i_solutions = <<>>
    /\ i_first = Raised("none")
    /\ i_second = Raised("none")
    /\ i_pc = "idle"

\* filter_solutions(S, P)
FilterOnce ==
    /\ i_pc = "called"
    /\ i_first' = filter_solutions(i_judge, i_solutions)
    /\ i_pc' = "once"
    /\ UNCHANGED <<i_judge, i_solutions, i_second>>
    /\ UNCHANGED <<parserVars, chatVars, filterVars, sortVars, trySortVars, mainVars, setupVars>>

\* filter_solutions(filter_solutions(S, P), P), when the first call returned
FilterAgain ==
    /\ i_pc = "once"
    /\ i_first.raised = "none"
    /\ i_second' = filter_solutions(i_judge, i_first.value)
    /\ i_pc' = "twice"
    /\ UNCHANGED <<i_judge, i_solutions, i_first>>
    /\ UNCHANGED <<parserVars, chatVars, filterVars, sortVars, trySortVars, mainVars, setupVars>>

\* variant: the empty result is not turned into a failure
TryFilteringResult_no_empty_check(solutions, filtered) ==
    IF filtered.raised # "none" THEN solutions ELSE filtered.value

\* variant: a failed filtering leaves no solution
TryFilteringResult_nothing_on_failure(solutions, filtered) ==
    IF filtered.raised # "none" THEN <<>> ELSE filtered.value

\* what try_filtering returns, given what filter_solutions produced
TryFilteringResult(solutions, filtered) ==
    IF filtered.raised # "none" \/ Len(filtered.value) = 0
    THEN solutions
    ELSE filtered.value

\* the rest of try_filtering, once filter_solutions is over
TryFilteringReturn ==
    /\ tf_pc = "filtering"
    /\ f_pc \in {"returned", "raised"}
    /\ tf_result' = TryFilteringResult(f_solutions, f_result)
    /\ tf_pc' = "returned"
    /\ UNCHANGED <<f_solutions, f_done, valid_solutions, keep_mask, f_responses,
                   f_pc, f_result>>
    /\ UNCHANGED <<parserVars, chatVars, sortVars, trySortVars, mainVars, refilterVars, setupVars>>

(***************************************************************************)
(* sorting.get_best_solution                                               *)
(***************************************************************************)
MAX_RETRIES == 3

Solution1 == <<"s", "o", "l", "u", "t", "i", "o", "n", " ", "1">>

\* variant: the bound is reached one failure earlier
TooManyFailures_off_by_one(failed) == failed >= MAX_RETRIES

\* failed_attempts > MAX_RETRIES
TooManyFailures(failed) == failed > MAX_RETRIES

\* variant: the preferred first solution does not remove the last one
DropLoser_keeps_last(solutions, preference) ==
    IF preference = Solution1 THEN solutions ELSE Tail(solutions)

\* variant: the branches on preferred_solution are swapped
DropLoser_swapped(solutions, preference) ==
    IF preference = Solution1
    THEN Tail(solutions)
    ELSE SubSeq(solutions, 1, Len(solutions) - 1)

\* variant: the answer is not used, the solution whose callsign comes later
\* in the alphabet is removed
DropLoser_by_callsign(solutions, preference) ==
    IF \/ Head(solutions) = "ABC123"
       \/ Head(solutions) = "DEF123" /\ solutions[Len(solutions)] = "GHI123"
    THEN SubSeq(solutions, 1, Len(solutions) - 1)
    ELSE Tail(solutions)

\* variant: both solutions of the comparison are removed
DropLoser_drops_both(solutions, preference) ==
    SubSeq(solutions, 2, Len(solutions) - 1)

\* solutions[:-1] if preferred_solution == 1 else solutions[1:]
DropLoser(solutions, preference) ==
    IF preference = Solution1
    THEN SubSeq(solutions, 1, Len(solutions) - 1)
    ELSE Tail(solutions)

SortInit ==
    /\ s_input \in SolutionLists
    /\ s_solutions = s_input
    /\ failed_attempts = 0
    /\ s_requests = 0
    /\ s_parsed = 0
    /\ cmp_failed = 0
    /\ s_nonempty = FALSE
    /\ s_pc = "called"
    /\ s_result = Raised("none")
    /\ s_all_first = TRUE
    /\ s_compared = <<>>
    /\ s_preference = <<>>

SortIdle ==
    /\ s_input = <<>>
    /\ s_solutions = <<>>
    /\ failed_attempts = 0
    /\ s_requests = 0
    /\ s_parsed = 0
    /\ cmp_failed = 0
    /\ s_nonempty = FALSE
    /\ s_pc = "idle"
    /\ s_result = Raised("none")
    /\ s_all_first = TRUE
    /\ s_compared = <<>>
    /\ s_preference = <<>>

\* solutions[-1]
Last(solutions) == solutions[Len(solutions)]

\* variant: the first solution is compared with the second
Compared_neighbours(solutions) == <<solutions[1], solutions[2]>>

\* s1, s2 = (solutions[0], solutions[-1])
Compared(solutions) == <<solutions[1], Last(solutions)>>

\* variant: no check on the length before the loop
SortEntry_no_checks(solutions) == "loop"

\* the two checks on len(solutions) before the loop
SortEntry(solutions) ==
    IF Len(solutions) = 0 THEN "raise"
    ELSE IF Len(solutions) = 1 THEN "return"
    ELSE "loop"

\* the checks on the length of the list, and failed_attempts = 0
SortCall ==
    /\ s_pc = "called"
    /\ CASE SortEntry(s_solutions) = "raise" ->
               s_pc' = "raised" /\ s_result' = Raised("Exception")
         [] SortEntry(s_solutions) = "return" ->
               s_pc' = "returned" /\ s_result' = Result(Last(s_solutions))
         [] OTHER ->
               s_pc' = "loop" /\ s_result' = s_result
    /\ failed_attempts' = 0
    /\ UNCHANGED <<s_input, s_solutions, s_requests, s_parsed, cmp_failed,
                   s_nonempty, s_all_first, s_compared, s_preference>>
    /\ UNCHANGED <<parserVars, chatVars, filterVars, trySortVars, mainVars, refilterVars, setupVars>>

\* one iteration of `while len(solutions) > 1`
SortStep ==
    /\ s_pc = "loop"
    /\ Len(s_solutions) > 1
    /\ s_compared' = Compared(s_solutions)
    /\ \E r \in ChatOutcomes(SortTexts) :
           /\ s_requests' = s_requests + 1
           /\ s_nonempty' = (s_nonempty \/ r # ChatReturn(EmptyText))
           /\ s_all_first' = (s_all_first /\ r \in {ChatReturn(TextSolution1),
                                                    ChatReturn(TextSOLUTION1)})
           /\ IF r.raised # "none"
              THEN /\ s_pc' = "raised"
                   /\ s_result' = Raised(r.raised)
                   /\ s_preference' = <<>>
                   /\ UNCHANGED <<s_solutions, failed_attempts, s_parsed, cmp_failed>>
              ELSE LET parsed == answer_parser(r.sequences[1], VALID_SORTING_ANSWERS)
                   IN  IF parsed.raised # "none"
                       THEN /\ failed_attempts' = failed_attempts + 1
                            /\ cmp_failed' = cmp_failed + 1
                            /\ IF TooManyFailures(failed_attempts')
                               THEN /\ s_pc' = "raised"
                                    /\ s_result' = Raised("SortingFailureError")
                               ELSE UNCHANGED <<s_pc, s_result>>
                            /\ s_preference' = <<>>
                            /\ UNCHANGED <<s_solutions, s_parsed>>
                       ELSE /\ s_preference' = parsed.answer
                            /\ s_solutions' = DropLoser(s_solutions, parsed.answer)
                            /\ s_parsed' = s_parsed + 1
                            /\ cmp_failed' = 0
                            /\ UNCHANGED <<failed_attempts, s_pc, s_result>>
    /\ UNCHANGED s_input
    /\ UNCHANGED <<parserVars, chatVars, filterVars, trySortVars, mainVars, refilterVars, setupVars>>

\* the loop is over: return solutions[-1]
SortReturn ==
    /\ s_pc = "loop"
    /\ Len(s_solutions) <= 1
    /\ IF Len(s_solutions) = 0
       THEN s_pc' = "raised" /\ s_result' = Raised("IndexError")
       ELSE s_pc' = "returned" /\ s_result' = Result(Last(s_solutions))
    /\ UNCHANGED <<s_input, s_solutions, failed_attempts, s_requests, s_parsed,
                   cmp_failed, s_nonempty, s_all_first, s_compared, s_preference>>
    /\ UNCHANGED <<parserVars, chatVars, filterVars, trySortVars, mainVars, refilterVars, setupVars>>

(***************************************************************************)
(* ali.try_sorting: a random candidate is drawn before the try block, then *)
(* get_best_solution runs inside it; `except Exception` keeps the          *)
(* candidate.                                                              *)
(***************************************************************************)
Elems(seq) == {seq[i] : i \in 1..Len(seq)}

\* variant: the candidate is lost when get_best_solution raises
TrySortingResult_no_candidate(candidate, sorted) ==
    IF sorted.raised # "none" THEN "None" ELSE sorted.value

\* what try_sorting returns, given what get_best_solution produced
TrySortingResult(candidate, sorted) ==
    IF sorted.raised # "none" THEN candidate ELSE sorted.value

\* main hands try_sorting what try_filtering returned, which is never empty
\* for the lists of the solver
TrySortInit ==
    /\ ts_pc = "called"
    /\ ts_solutions \in SolutionLists \ {<<>>}
    /\ best_solution = None

TrySortIdle ==
    /\ ts_pc = "idle"
    /\ ts_solutions = <<>>
    /\ best_solution = None

\* random.choice(solutions), outside the try block, then the call of
\* get_best_solution
TrySortingCall ==
    /\ ts_pc = "called"
    /\ IF Len(ts_solutions) = 0
       THEN /\ ts_pc' = "raised"
            /\ best_solution' = <<"IndexError">>
            /\ UNCHANGED sortVars
       ELSE /\ \E i \in 1..Len(ts_solutions) : best_solution' = ts_solutions[i]
            /\ ts_pc' = "sorting"
            /\ s_input' = ts_solutions
            /\ s_solutions' = ts_solutions
            /\ s_pc' = "called"
            /\ s_result' = Raised("none")
            /\ s_requests' = 0
            /\ s_parsed' = 0
            /\ cmp_failed' = 0
            /\ s_nonempty' = FALSE
            /\ s_all_first' = TRUE
            /\ s_compared' = <<>>
            /\ s_preference' = <<>>
            /\ UNCHANGED failed_attempts
    /\ UNCHANGED ts_solutions
    /\ UNCHANGED <<parserVars, chatVars, filterVars, mainVars, refilterVars, setupVars>>

\* get_best_solution is over: its value, or the candidate after the except
TrySortingReturn ==
    /\ ts_pc = "sorting"
    /\ s_pc \in {"returned", "raised"}
    /\ best_solution' = TrySortingResult(best_solution, s_result)
    /\ ts_pc' = "returned"
    /\ UNCHANGED ts_solutions
    /\ UNCHANGED <<parserVars, chatVars, filterVars, sortVars, mainVars, refilterVars, setupVars>>

\* main: best_solution = try_sorting(solutions=valid_solutions, ...), on the
\* list try_filtering has just returned
JudgeHandOver ==
    /\ tf_pc = "returned"
    /\ ts_pc = "idle"
    /\ ts_solutions' = tf_result
    /\ ts_pc' = "called"
    /\ UNCHANGED best_solution
    /\ UNCHANGED <<parserVars, chatVars, filterVars, sortVars, mainVars, refilterVars, setupVars>>

\* the solver returns at least four solutions, never none, each one built
\* apart from the others
JudgeInit ==
    /\ FilterInit
    /\ f_solutions # <<>>
    /\ \A i, j \in 1..Len(f_solutions) : f_solutions[i] = f_solutions[j] => i = j

(***************************************************************************)
(* solver.resolution.Conflict.  callsigns is the frozenset of a pair of    *)
(* bs.traf.cd.confpairs_unique; repr is the order in which                 *)
(* set(callsigns) prints its two elements, which for two equal sets may    *)
(* differ when the elements collide in the table of the set.               *)
(***************************************************************************)
Callsigns == SolutionIds

Pairs == {p \in SUBSET Callsigns : Cardinality(p) = 2}

Metrics == {1, 2}

Reprs(p) == {r \in [1..2 -> p] : r[1] # r[2]}

Conflicts ==
    UNION {[callsigns : {p}, repr : Reprs(p), dcpa : Metrics, tcpa : Metrics] :
               p \in Pairs}

\* variant: two conflicts are equal when all their fields are
ConflictEq_with_metrics(a, b) ==
    a.callsigns = b.callsigns /\ a.dcpa = b.dcpa /\ a.tcpa = b.tcpa

\* Conflict.__eq__
ConflictEq(a, b) == a.callsigns = b.callsigns

\* Conflict.__hash__: hash(repr(set(callsigns)))
ConflictHash(c) == c.repr

\* `conflict in list`: some element is equal to it
In(c, list) == \E i \in 1..Len(list) : ConflictEq(list[i], c)

(***************************************************************************)
(* The dict conflicts_under_resolution_solution, as the set of its         *)
(* entries.  A key is found by its hash and then by __eq__.                *)
(***************************************************************************)
DictFind(dict, k) ==
    {e \in dict : ConflictHash(e.key) = ConflictHash(k) /\ ConflictEq(e.key, k)}

DictHas(dict, k) == DictFind(dict, k) # {}

\* dict[k], when k is there
DictGet(dict, k) == (CHOOSE e \in DictFind(dict, k) : TRUE).value

\* dict.pop(k), when k is there
DictPop(dict, k) == dict \ DictFind(dict, k)

\* dict[k] = v: the value of a key already there is replaced, the key stays
DictSet(dict, k, v) ==
    IF DictHas(dict, k)
    THEN (dict \ DictFind(dict, k))
             \cup {[key |-> e.key, value |-> v] : e \in DictFind(dict, k)}
    ELSE dict \cup {[key |-> k, value |-> v]}

\* list.pop(idx), idx counted from 0 and within the list
ListPop(list, idx) ==
    SubSeq(list, 1, idx) \o SubSeq(list, idx + 2, Len(list))

(***************************************************************************)
(* solver.resolution.DummySolver.resolve: per callsign a change of heading *)
(* and a change of altitude, then per callsign a change of speed unless    *)
(* the headings are less than 30 degrees apart.                            *)
(***************************************************************************)
EXECUTION_DELAY == 30

HEADING_BACK == 240

SPEED_BACK == 120

Command(kind, time) == [kind |-> kind, time |-> time]

Heading(callsign, t) ==
    [callsign |-> callsign,
     commands |-> <<Command("HDG", t), Command("HDG", t + HEADING_BACK)>>]

Altitude(callsign, t) ==
    [callsign |-> callsign, commands |-> <<Command("ALT", t)>>]

Speed(callsign, t) ==
    [callsign |-> callsign,
     commands |-> <<Command("SPD", t), Command("SPD", t + SPEED_BACK)>>]

Abs(x) == IF x < 0 THEN 0 - x ELSE x

\* abs((hdg1 % 180) - (hdg2 % 180)) < 30
NarrowAngle(hdg1, hdg2) == Abs((hdg1 % 180) - (hdg2 % 180)) < 30

\* the callsigns of the conflict are visited in the order of its set
Resolve(conflict, traf_hdg, current_time) ==
    LET execution_time == current_time + EXECUTION_DELAY
        cs == conflict.repr
    IN  <<Heading(cs[1], execution_time), Altitude(cs[1], execution_time),
          Heading(cs[2], execution_time), Altitude(cs[2], execution_time)>>
        \o (IF NarrowAngle(traf_hdg[cs[1]], traf_hdg[cs[2]])
            THEN <<>>
            ELSE <<Speed(cs[1], execution_time), Speed(cs[2], execution_time)>>)

\* SolverBase.apply_solution: a SCHEDULE line and an ECHO line per command
RECURSIVE Schedule(_, _)
Schedule(callsign, commands) ==
    IF commands = <<>> THEN <<>>
    ELSE <<[line |-> "SCHEDULE", time |-> Head(commands).time,
            callsign |-> callsign, kind |-> Head(commands).kind],
           [line |-> "ECHO", time |-> Head(commands).time,
            callsign |-> callsign, kind |-> Head(commands).kind]>>
         \o Schedule(callsign, Tail(commands))

\* variant: the commands scheduled before are dropped
apply_solution_alone(lines, solution) ==
    Schedule(solution.callsign, solution.commands)

\* conflict_solver.apply_solution(best_solution), on the lines the stack
\* has been given so far
apply_solution(lines, solution) ==
    lines \o Schedule(solution.callsign, solution.commands)

(***************************************************************************)
(* ali.clean_conflicts_under_resolution.  The loop enumerates a copy of    *)
(* the list and pops from the list itself at the index in the copy.        *)
(***************************************************************************)
GRACE == 20

\* timedelta(seconds=simt) > first_command_exec_time + timedelta(seconds=20)
Stale(t, first_command_exec_time) ==
    t > first_command_exec_time + GRACE

Cleaned(list, dict, error) == [list |-> list, dict |-> dict, error |-> error]

\* the two pops of an eviction, then the rest of the loop
RECURSIVE CleanFrom(_, _, _, _, _, _)
Evict(copy, idx, list, dict, confs, t) ==
    IF idx >= Len(list) THEN Cleaned(list, dict, "IndexError")
    ELSE IF ~DictHas(dict, copy[idx + 1])
    THEN Cleaned(ListPop(list, idx), dict, "KeyError")
    ELSE CleanFrom(copy, idx + 1, ListPop(list, idx),
                   DictPop(dict, copy[idx + 1]), confs, t)

\* the iterations of `for idx, rc in enumerate(copy)` from idx on
CleanFrom(copy, idx, list, dict, confs, t) ==
    IF idx >= Len(copy) THEN Cleaned(list, dict, "none")
    ELSE LET rc == copy[idx + 1]
         IN  IF ~In(rc, confs)
             THEN Evict(copy, idx, list, dict, confs, t)
             ELSE IF ~DictHas(dict, rc)
             THEN Cleaned(list, dict, "KeyError")
             ELSE IF Stale(t, DictGet(dict, rc).commands[1].time)
             THEN Evict(copy, idx, list, dict, confs, t)
             ELSE CleanFrom(copy, idx + 1, list, dict, confs, t)

clean_conflicts_under_resolution(list, dict, confs, t) ==
    CleanFrom(list, 0, list, dict, confs, t)

(***************************************************************************)
(* ali.main: the loop `while (bs.sim.state != bs.END) and run`, and the    *)
(* signal handler.  The time of the simulation is in seconds; the judge    *)
(* of the per-conflict step may end on any solution of the list.           *)
(***************************************************************************)
StartTime == 70

MaxTime == 125

TimeSteps == {15, 25}

\* the order in which the process iterates over confpairs_unique
PairOrder == <<{"ABC123", "DEF123"}, {"ABC123", "GHI123"}, {"DEF123", "GHI123"}>>

\* the subsequence of `seq` of the elements in `keep`
RECURSIVE Restrict(_, _)
Restrict(seq, keep) ==
    IF seq = <<>> THEN <<>>
    ELSE IF Head(seq) \in keep
    THEN <<Head(seq)>> \o Restrict(Tail(seq), keep)
    ELSE Restrict(Tail(seq), keep)

\* the two orders in which set(callsigns) can print a pair
CallsignOrder == <<"ABC123", "DEF123", "GHI123">>

ReprOf(pair, flipped) ==
    LET r == Restrict(CallsignOrder, pair)
    IN  IF flipped THEN <<r[2], r[1]>> ELSE r

\* list_conflicts: one Conflict per pair of confpairs_unique, with the
\* metrics and the printing order of this detection
list_conflicts(confpairs, dcpa, tcpa, flipped) ==
    LET pairs == Restrict(PairOrder, confpairs)
    IN  [i \in 1..Len(pairs) |->
            [callsigns |-> pairs[i], repr |-> ReprOf(pairs[i], flipped),
             dcpa |-> dcpa, tcpa |-> tcpa]]

\* what one detection can give
ConflictLists ==
    {list_conflicts(confpairs, dcpa, tcpa, flipped) :
        confpairs \in SUBSET Pairs, dcpa \in Metrics, tcpa \in Metrics,
        flipped \in BOOLEAN}

\* the detections of a run of main: the two metrics move together, and
\* the sets print in one order
RunConflictLists ==
    {l \in ConflictLists :
        \A i \in 1..Len(l) :
            l[i].tcpa = l[i].dcpa /\ l[i].repr = ReprOf(l[i].callsigns, FALSE)}

\* bs.traf.hdg: two aircraft cross at a wide angle, the third flies
\* between them
TrafficHeadings ==
    [c \in Callsigns |->
        CASE c = "ABC123" -> 0 [] c = "DEF123" -> 50 [] OTHER -> 25]

MainInit ==
    /\ run = TRUE
    /\ sim_state = "OP"
    /\ simt = StartTime
    /\ conf_list = <<>>
    /\ conflicts_under_resolution = <<>>
    /\ conflicts_under_resolution_solution = {}
    /\ m_pc = "head"
    /\ m_idx = 0
    /\ m_solutions = <<>>
    /\ stack = <<>>
    /\ m_error = "none"
    /\ tracked_before = [list |-> <<>>, dict |-> {}]
    /\ handled = {}
    /\ stopped_at = "none"

\* where the per-conflict step can end: on the first solution, as under a
\* judge that always prefers "solution 1", or on the last one, as under a
\* judge that always prefers "solution 2"
JudgeChoices(solutions) == {Head(solutions), Last(solutions)}

RECURSIVE TimesFrom(_)
\* the times bs.sim.update() can bring the simulation to from the times ts
TimesFrom(ts) ==
    LET next == ts \cup {t + dt : t \in ts, dt \in TimeSteps}
        kept == {t \in next : t <= MaxTime}
    IN  IF kept = ts THEN ts ELSE TimesFrom(kept)

\* the times of the cycles after the one at StartTime
LaterTimes == TimesFrom({StartTime}) \ {StartTime}

\* a later cycle of main: one conflict was resolved at StartTime and is
\* tracked, the simulation has moved on by one update or more, and the
\* detection gives any pairs with any metrics and either printing order
CycleInit ==
    /\ run = TRUE
    /\ sim_state = "OP"
    /\ simt \in LaterTimes
    /\ conf_list \in ConflictLists
    /\ \E rc \in Conflicts :
           \E best \in JudgeChoices(Resolve(rc, TrafficHeadings, StartTime)) :
               /\ conflicts_under_resolution = <<rc>>
               /\ conflicts_under_resolution_solution = DictSet({}, rc, best)
               /\ stack = Schedule(best.callsign, best.commands)
    /\ tracked_before = [list |-> conflicts_under_resolution,
                         dict |-> conflicts_under_resolution_solution]
    /\ m_pc = "clean"
    /\ m_idx = 1
    /\ m_solutions = <<>>
    /\ m_error = "none"
    /\ handled = {}
    /\ stopped_at = "none"

\* variant: the loop goes on whatever the run flag
WhileTest_ignores_run(state, flag) == state # "END"

\* (bs.sim.state != bs.END) and run
WhileTest(state, flag) == state # "END" /\ flag

\* the test of the while loop holds: bs.sim.update(), then list_conflicts
MainUpdate ==
    /\ m_pc = "head"
    /\ WhileTest(sim_state, run)
    /\ \E dt \in TimeSteps :
           /\ simt + dt <= MaxTime
           /\ simt' = simt + dt
    /\ sim_state' \in {"OP", "END"}
    /\ conf_list' \in RunConflictLists
    /\ m_pc' = "clean"
    /\ tracked_before' = [list |-> conflicts_under_resolution,
                           dict |-> conflicts_under_resolution_solution]
    /\ handled' = {}
    /\ UNCHANGED <<run, trackerVars, m_idx, m_solutions, stack, m_error, stopped_at>>
    /\ UNCHANGED <<parserVars, chatVars, filterVars, sortVars, trySortVars, refilterVars, setupVars>>

\* the call of clean_conflicts_under_resolution; an exception of it ends main
MainClean ==
    /\ m_pc = "clean"
    /\ LET cleaned == clean_conflicts_under_resolution(
                          conflicts_under_resolution,
                          conflicts_under_resolution_solution,
                          conf_list, simt)
       IN  /\ conflicts_under_resolution' = cleaned.list
           /\ conflicts_under_resolution_solution' = cleaned.dict
           /\ m_error' = cleaned.error
           /\ m_pc' = IF cleaned.error = "none" THEN "foreach" ELSE "crashed"
    /\ m_idx' = 1
    /\ UNCHANGED <<run, sim_state, simt, conf_list, m_solutions, stack,
                   tracked_before, handled, stopped_at>>
    /\ UNCHANGED <<parserVars, chatVars, filterVars, sortVars, trySortVars, refilterVars, setupVars>>

\* `if conflict in conflicts_under_resolution: continue`
MainSkip ==
    /\ m_pc = "foreach"
    /\ m_idx <= Len(conf_list)
    /\ In(conf_list[m_idx], conflicts_under_resolution)
    /\ m_idx' = m_idx + 1
    /\ UNCHANGED <<run, sim_state, simt, conf_list, trackerVars, m_pc,
                   m_solutions, stack, m_error, tracked_before, handled, stopped_at>>
    /\ UNCHANGED <<parserVars, chatVars, filterVars, sortVars, trySortVars, refilterVars, setupVars>>

\* the conflict is not tracked: conflict_solver.resolve
MainResolve ==
    /\ m_pc = "foreach"
    /\ m_idx <= Len(conf_list)
    /\ ~In(conf_list[m_idx], conflicts_under_resolution)
    /\ m_solutions' = Resolve(conf_list[m_idx], TrafficHeadings, simt)
    /\ handled' = handled \cup {conf_list[m_idx]}
    /\ m_pc' = "judging"
    /\ UNCHANGED <<run, sim_state, simt, conf_list, trackerVars, m_idx, stack,
                   m_error, tracked_before, stopped_at>>
    /\ UNCHANGED <<parserVars, chatVars, filterVars, sortVars, trySortVars, refilterVars, setupVars>>

\* try_filtering and try_sorting end on a solution of the list, which is
\* applied; the conflict is tracked with it
MainApply ==
    /\ m_pc = "judging"
    /\ \E best \in JudgeChoices(m_solutions) :
           /\ stack' = apply_solution(stack, best)
           /\ conflicts_under_resolution' =
                  Append(conflicts_under_resolution, conf_list[m_idx])
           /\ conflicts_under_resolution_solution' =
                  DictSet(conflicts_under_resolution_solution, conf_list[m_idx], best)
    /\ m_solutions' = <<>>
    /\ m_idx' = m_idx + 1
    /\ m_pc' = "foreach"
    /\ UNCHANGED <<run, sim_state, simt, conf_list, m_error, tracked_before,
                   handled, stopped_at>>
    /\ UNCHANGED <<parserVars, chatVars, filterVars, sortVars, trySortVars, refilterVars, setupVars>>

\* the for loop over conf_list is over: back to the test of the while loop
MainCycleEnd ==
    /\ m_pc = "foreach"
    /\ m_idx > Len(conf_list)
    /\ m_pc' = "head"
    /\ UNCHANGED <<run, sim_state, simt, conf_list, trackerVars, m_idx,
                   m_solutions, stack, m_error, tracked_before, handled, stopped_at>>
    /\ UNCHANGED <<parserVars, chatVars, filterVars, sortVars, trySortVars, refilterVars, setupVars>>

\* the test of the while loop fails: bs.sim.quit()
MainExit ==
    /\ m_pc = "head"
    /\ ~WhileTest(sim_state, run)
    /\ m_pc' = "ended"
    /\ UNCHANGED <<run, sim_state, simt, conf_list, trackerVars, m_idx,
                   m_solutions, stack, m_error, tracked_before, handled, stopped_at>>
    /\ UNCHANGED <<parserVars, chatVars, filterVars, sortVars, trySortVars, refilterVars, setupVars>>

\* handler_stop_signals, on SIGINT or SIGTERM, wherever main is
Signal ==
    /\ m_pc \in {"head", "clean", "foreach", "judging"}
    /\ run
    /\ run' = FALSE
    /\ stopped_at' = m_pc
    /\ UNCHANGED <<sim_state, simt, conf_list, trackerVars, m_pc, m_idx,
                   m_solutions, stack, m_error, tracked_before, handled>>
    /\ UNCHANGED <<parserVars, chatVars, filterVars, sortVars, trySortVars, refilterVars, setupVars>>

MainIdle ==
    /\ run = TRUE
    /\ sim_state = "OP"
    /\ simt = 0
    /\ conf_list = <<>>
    /\ conflicts_under_resolution = <<>>
    /\ conflicts_under_resolution_solution = {}
    /\ m_pc = "idle"
    /\ m_idx = 0
    /\ m_solutions = <<>>
    /\ stack = <<>>
    /\ m_error = "none"
    /\ tracked_before = [list |-> <<>>, dict |-> {}]
    /\ handled = {}
    /\ stopped_at = "none"

(***************************************************************************)
(* policy.ATCPolicy: the constructor and parse_json.  `data` is what       *)
(* json.loads gave: an object, as the sequence of its members in the order *)
(* of the file, or an array.  The value of a member is an array of entries *)
(* or null; an entry is an object, as the sequence of its pairs, or a      *)
(* string.                                                                 *)
(***************************************************************************)
MaxMembers == 2

MaxEntries == 2

PolicyKeys == {"FILTERING_RULES", "SORTING_RULES", "COMMENT"}

RuleIds == {"R1", "R2"}

\* the text of the rule, one for each identifier
RuleText(idx) == IF idx = "R1" THEN "avoid climbs" ELSE "prefer headings"

Pair(idx) == [id |-> idx, value |-> RuleText(idx)]

JsonObject(pairs) == [kind |-> "object", pairs |-> pairs]

JsonString == [kind |-> "string", pairs |-> <<>>]

JsonArray(items) == [kind |-> "array", items |-> items]

JsonNull == [kind |-> "null", items |-> <<>>]

Entries ==
    {JsonObject(<<>>), JsonString}
        \cup {JsonObject(<<Pair(i)>>) : i \in RuleIds}
        \cup {JsonObject(<<Pair(p[1]), Pair(p[2])>>) :
                 p \in {q \in RuleIds \X RuleIds : q[1] # q[2]}}

MemberValues ==
    {JsonNull} \cup {JsonArray(items) :
                        items \in UNION {[1..n -> Entries] : n \in 0..MaxEntries}}

Members == [key : PolicyKeys, value : MemberValues]

\* the objects have each key once
PolicyData ==
    {[kind |-> "array", members |-> <<>>]}
        \cup {[kind |-> "object", members |-> ms] :
                 ms \in {m \in UNION {[1..n -> Members] : n \in 0..MaxMembers} :
                            \A i, j \in 1..Len(m) : m[i].key = m[j].key => i = j}}

Rule(idx, value) == [id |-> idx, value |-> value]

Policy(filtering, sorting) ==
    [raised |-> "none", filtering_rules |-> filtering, sorting_rules |-> sorting]

PolicyRaise(e) == [raised |-> e, filtering_rules |-> <<>>, sorting_rules |-> <<>>]

\* Rule(next(iter(v.keys())), next(iter(v.values()))): the exception, or the
\* rule of the first pair
RuleOf(v) ==
    IF v.kind # "object" THEN [raised |-> "AttributeError", rules |-> <<>>]
    ELSE IF v.pairs = <<>> THEN [raised |-> "StopIteration", rules |-> <<>>]
    ELSE [raised |-> "none", rules |-> <<Rule(v.pairs[1].id, v.pairs[1].value)>>]

RECURSIVE AppendRules(_, _)
\* `for v in value: rules.append(Rule(...))`, on the list `rules`
AppendRules(rules, items) ==
    IF items = <<>> THEN [raised |-> "none", rules |-> rules]
    ELSE LET r == RuleOf(Head(items))
         IN  IF r.raised # "none" THEN [raised |-> r.raised, rules |-> rules]
             ELSE AppendRules(rules \o r.rules, Tail(items))

\* the inner loop on the value of one of the two named members
RulesFrom(rules, value) ==
    IF value.kind = "null" THEN [raised |-> "TypeError", rules |-> rules]
    ELSE AppendRules(rules, value.items)

RECURSIVE ParseMembers(_, _, _)
\* `for key, value in data.items()`, with the two lists built so far
ParseMembers(filtering, sorting, members) ==
    IF members = <<>> THEN Policy(filtering, sorting)
    ELSE LET m == Head(members)
         IN  IF m.key = "FILTERING_RULES"
             THEN LET r == RulesFrom(filtering, m.value)
                  IN  IF r.raised # "none" THEN PolicyRaise(r.raised)
                      ELSE ParseMembers(r.rules, sorting, Tail(members))
             ELSE IF m.key = "SORTING_RULES"
             THEN LET r == RulesFrom(sorting, m.value)
                  IN  IF r.raised # "none" THEN PolicyRaise(r.raised)
                      ELSE ParseMembers(filtering, r.rules, Tail(members))
             ELSE ParseMembers(filtering, sorting, Tail(members))

\* ATCPolicy(file_path): the two lists start empty, then parse_json
parse_json(data) ==
    IF data.kind # "object" THEN PolicyRaise("AttributeError")
    ELSE ParseMembers(<<>>, <<>>, data.members)

PolicyInit ==
    /\ pol_data \in PolicyData
    /\ pol_pc = "called"
    /\ pol_result = PolicyRaise("none")

PolicyIdle ==
    /\ pol_data = [kind |-> "object", members |-> <<>>]
    /\ pol_pc = "idle"
    /\ pol_result = PolicyRaise("none")

\* main: policy = ATCPolicy(policy_path)
LoadPolicy ==
    /\ pol_pc = "called"
    /\ pol_result' = parse_json(pol_data)
    /\ pol_pc' = IF pol_result'.raised = "none" THEN "built" ELSE "raised"
    /\ UNCHANGED pol_data
    /\ UNCHANGED <<optionsVars, tournamentVars>>
    /\ UNCHANGED <<parserVars, chatVars, filterVars, sortVars, trySortVars, mainVars,
                   refilterVars>>

(***************************************************************************)
(* llm.generate: the same gateway on CLIENT.generate.  The call goes       *)
(* through the positions "g_called", "g_loop", "g_returned" and "g_raised" *)
(* of c_pc, on the variables of chat.                                      *)
(***************************************************************************)
\* variant: the except clause of generate is the one of chat
CaughtByGenerate_as_chat == CaughtByChat

\* the except clause of generate
CaughtByGenerate == {"ResponseError"}

GenerateInit ==
    /\ c_options_ok \in BOOLEAN
    /\ c_pc = "g_called"
    /\ attempt = 0
    /\ c_outcomes = <<>>
    /\ c_sleeps = <<>>
    /\ c_warned = FALSE
    /\ c_result = ChatRaise("none")

\* assert isinstance(options, OllamaOptions)
GenerateCall ==
    /\ c_pc = "g_called"
    /\ IF c_options_ok
       THEN c_pc' = "g_loop" /\ c_result' = c_result
       ELSE c_pc' = "g_raised" /\ c_result' = ChatRaise("AssertionError")
    /\ UNCHANGED <<c_options_ok, attempt, c_outcomes, c_sleeps, c_warned>>
    /\ UNCHANGED <<parserVars, filterVars, sortVars, trySortVars, mainVars, refilterVars,
                   setupVars>>

\* one iteration of `for attempt in range(N_RETRIES)`
GenerateAttempt ==
    /\ c_pc = "g_loop"
    /\ attempt < N_RETRIES
    /\ \E o \in ClientOutcomes(FilterTexts \cup {TextSolution1}) :
           /\ c_outcomes' = Append(c_outcomes, o)
           /\ IF o.exc = "none"
              THEN /\ c_pc' = "g_returned"
                   /\ c_result' = ChatReturn(o.content)
                   /\ UNCHANGED <<attempt, c_sleeps>>
              ELSE IF o.exc \in CaughtByGenerate
              THEN /\ c_sleeps' = Append(c_sleeps, SleepTenths(attempt))
                   /\ attempt' = attempt + 1
                   /\ UNCHANGED <<c_pc, c_result>>
              ELSE /\ c_pc' = "g_raised"
                   /\ c_result' = ChatRaise(o.exc)
                   /\ UNCHANGED <<attempt, c_sleeps>>
    /\ UNCHANGED <<c_options_ok, c_warned>>
    /\ UNCHANGED <<parserVars, filterVars, sortVars, trySortVars, mainVars, refilterVars,
                   setupVars>>

\* the loop is over: the warning, and the empty text
GenerateExhausted ==
    /\ c_pc = "g_loop"
    /\ attempt = N_RETRIES
    /\ c_warned' = TRUE
    /\ c_pc' = "g_returned"
    /\ c_result' = ChatReturn(EmptyText)
    /\ UNCHANGED <<c_options_ok, attempt, c_outcomes, c_sleeps>>
    /\ UNCHANGED <<parserVars, filterVars, sortVars, trySortVars, mainVars, refilterVars,
                   setupVars>>

\* a call of either function of the gateway
GatewayInit == ChatInit \/ GenerateInit

(***************************************************************************)
(* llm.OllamaOptions: the constructor, on keyword arguments given as the   *)
(* sequence of their (key, value) pairs.  The fields are those the         *)
(* repository sets (temperature, seed) and the one of its test (numa); the *)
(* validation of a value against the type of its field is the one of       *)
(* pydantic in its default mode.                                           *)
(***************************************************************************)
MaxOptions == 2

OptionKeys == {"temperature", "seed", "numa", "abc"}

\* ollama.Options.__annotations__.get(key)
Annotation(key) ==
    CASE key = "temperature" -> "float"
      [] key = "seed" -> "int"
      [] key = "numa" -> "bool"
      [] OTHER -> "None"

Value(type, v) == [type |-> type, v |-> v]

OptionValues ==
    {Value("int", "123"), Value("float", "0.5"), Value("str", "abc"),
     Value("bool", "True")}

Kwargs ==
    {kw \in UNION {[1..n -> [key : OptionKeys, value : OptionValues]] :
                      n \in 0..MaxOptions} :
        \A i, j \in 1..Len(kw) : kw[i].key = kw[j].key => i = j}

\* float(value)
Float(value) ==
    IF value.type = "bool" THEN Value("float", "1.0")
    ELSE Value("float", "123.0")

\* isinstance(value, int) and the annotation is float: float(value); a bool
\* is an int
Coerced(key, value) ==
    IF value.type \in {"int", "bool"} /\ Annotation(key) = "float"
    THEN Float(value)
    ELSE value

\* whether pydantic takes the value for a field of that type
Validates(annotation, value) ==
    CASE annotation = "float" -> value.type \in {"float", "int", "bool"}
      [] annotation = "int" -> value.type \in {"int", "bool"}
      [] annotation = "bool" -> value.type = "bool"
      [] OTHER -> FALSE

Options(fields) == [raised |-> "none", built |-> TRUE, fields |-> fields]

OptionsRaise(e) == [raised |-> e, built |-> FALSE, fields |-> <<>>]

\* variant: no check of the keys against the annotations
OllamaOptions_any_key(kwargs) ==
    LET coerced == [i \in 1..Len(kwargs) |->
                       [key |-> kwargs[i].key,
                        value |-> Coerced(kwargs[i].key, kwargs[i].value)]]
    IN  IF \A i \in 1..Len(coerced) :
               \/ Annotation(coerced[i].key) = "None"
               \/ Validates(Annotation(coerced[i].key), coerced[i].value)
        THEN Options(coerced)
        ELSE OptionsRaise("ValidationError")

\* OllamaOptions.__init__: the loop on the keys, then super().__init__
OllamaOptions(kwargs) ==
    LET coerced == [i \in 1..Len(kwargs) |->
                       [key |-> kwargs[i].key,
                        value |-> Coerced(kwargs[i].key, kwargs[i].value)]]
    IN  IF \E i \in 1..Len(kwargs) : Annotation(kwargs[i].key) = "None"
        THEN OptionsRaise("KeyError")
        ELSE IF \A i \in 1..Len(coerced) :
                    Validates(Annotation(coerced[i].key), coerced[i].value)
        THEN Options(coerced)
        ELSE OptionsRaise("ValidationError")

\* the caller either builds an OllamaOptions from the keyword arguments and
\* hands it over, or hands over the dict itself
OptionsInit ==
    /\ o_kwargs \in Kwargs
    /\ o_given \in {"OllamaOptions", "dict"}
    /\ o_pc = "called"
    /\ o_result = OptionsRaise("none")

OptionsIdle ==
    /\ o_kwargs = <<>>
    /\ o_given = "OllamaOptions"
    /\ o_pc = "idle"
    /\ o_result = OptionsRaise("none")

\* options = OllamaOptions(**kwargs)
OptionsConstruct ==
    /\ o_pc = "called"
    /\ o_given = "OllamaOptions"
    /\ o_result' = OllamaOptions(o_kwargs)
    /\ o_pc' = IF o_result'.raised = "none" THEN "built" ELSE "raised"
    /\ UNCHANGED <<o_kwargs, o_given>>
    /\ UNCHANGED <<policyVars, tournamentVars>>
    /\ UNCHANGED <<parserVars, chatVars, filterVars, sortVars, trySortVars, mainVars,
                   refilterVars>>

\* chat(messages, options=options) or generate(prompt, options=options), with
\* the object built or with the dict
GatewayEnter ==
    /\ c_pc = "idle"
    /\ \/ o_given = "OllamaOptions" /\ o_pc = "built"
       \/ o_given = "dict" /\ o_pc = "called"
    /\ o_pc' = "handed"
    /\ c_options_ok' = (o_given = "OllamaOptions")
    /\ c_pc' \in {"called", "g_called"}
    /\ UNCHANGED <<o_kwargs, o_given, o_result>>
    /\ UNCHANGED <<attempt, c_outcomes, c_sleeps, c_warned, c_result>>
    /\ UNCHANGED <<policyVars, tournamentVars>>
    /\ UNCHANGED <<parserVars, filterVars, sortVars, trySortVars, mainVars, refilterVars>>

(***************************************************************************)
(* sorting.get_best_solution with a judge that gives the same answer       *)
(* whenever it is shown the same two solutions in the same places, called  *)
(* on two orderings of the same solutions.                                 *)
(***************************************************************************)
\* the solutions shown as "Solution 1" and "Solution 2"
Shown == {p \in SolutionIds \X SolutionIds : p[1] # p[2]}

\* the judges that always give an answer the parser takes
ParsedJudges == [Shown -> {TextSolution1, TextSolution2}]

\* the lists of the solver: each solution once
Candidates ==
    {l \in SolutionLists \ {<<>>} : \A i, j \in 1..Len(l) : l[i] = l[j] => i = j}

Orderings(solutions) ==
    {l \in Candidates : Len(l) = Len(solutions) /\ Elems(l) = Elems(solutions)}

RECURSIVE BestSolution(_, _)
\* the loop of get_best_solution and its return, when every answer parses
BestSolution(judge, solutions) ==
    IF Len(solutions) <= 1 THEN Last(solutions)
    ELSE LET response == judge[Compared(solutions)]
             parsed == answer_parser(response, VALID_SORTING_ANSWERS)
         IN  BestSolution(judge, DropLoser(solutions, parsed.answer))

TournamentInit ==
    /\ t_judge \in ParsedJudges
    /\ t_solutions \in {<<first, second>> : first \in Candidates, second \in Candidates}
    /\ Elems(t_solutions[1]) = Elems(t_solutions[2])
    /\ t_pc = "called"
    /\ t_result = <<>>

TournamentIdle ==
    /\ t_judge = [p \in Shown |-> TextSolution1]
    /\ t_solutions = <<>>
    /\ t_pc = "idle"
    /\ t_result = <<>>

\* get_best_solution on the first list, then on the second
TournamentRun ==
    /\ t_pc = "called"
    /\ t_result' = Append(t_result, BestSolution(t_judge, t_solutions[Len(t_result) + 1]))
    /\ t_pc' = IF Len(t_result') = 2 THEN "returned" ELSE "called"
    /\ UNCHANGED <<t_judge, t_solutions>>
    /\ UNCHANGED <<policyVars, optionsVars>>
    /\ UNCHANGED <<parserVars, chatVars, filterVars, sortVars, trySortVars, mainVars,
                   refilterVars>>

SetupIdle == PolicyIdle /\ OptionsIdle /\ TournamentIdle

(***************************************************************************)
(* The specifications.                                                     *)
(***************************************************************************)
ParserNext == Parse

ParserSpecInit ==
    ParserInit /\ ChatIdle /\ FilterIdle /\ SortIdle /\ TrySortIdle /\ MainIdle /\ RefilterIdle /\ SetupIdle

ParserSpec == ParserSpecInit /\ [][ParserNext]_vars

ChatNext == ChatCall \/ ChatAttempt \/ ChatExhausted

ChatSpecInit ==
    ChatInit /\ ParserIdle /\ FilterIdle /\ SortIdle /\ TrySortIdle /\ MainIdle /\ RefilterIdle /\ SetupIdle

ChatSpec == ChatSpecInit /\ [][ChatNext]_vars

FilterNext == TryFilteringCall \/ FilterStep \/ FilterReturn \/ TryFilteringReturn

FilterSpecInit ==
    FilterInit /\ ParserIdle /\ ChatIdle /\ SortIdle /\ TrySortIdle /\ MainIdle /\ RefilterIdle /\ SetupIdle

FilterSpec == FilterSpecInit /\ [][FilterNext]_vars

SortNext == SortCall \/ SortStep \/ SortReturn

SortSpecInit ==
    SortInit /\ ParserIdle /\ ChatIdle /\ FilterIdle /\ TrySortIdle /\ MainIdle /\ RefilterIdle /\ SetupIdle

SortSpec == SortSpecInit /\ [][SortNext]_vars

\* the one thread of the program runs the call to its end
SortFairSpec == SortSpec /\ WF_vars(SortNext)

TrySortNext == TrySortingCall \/ SortCall \/ SortStep \/ SortReturn \/ TrySortingReturn

TrySortSpecInit ==
    TrySortInit /\ SortIdle /\ ParserIdle /\ ChatIdle /\ FilterIdle /\ MainIdle /\ RefilterIdle /\ SetupIdle

TrySortSpec == TrySortSpecInit /\ [][TrySortNext]_vars

MainNext ==
    \/ MainUpdate \/ MainClean \/ MainSkip \/ MainResolve \/ MainApply
    \/ MainCycleEnd \/ MainExit \/ Signal

MainSpecInit ==
    MainInit /\ ParserIdle /\ ChatIdle /\ FilterIdle /\ SortIdle /\ TrySortIdle /\ RefilterIdle /\ SetupIdle

MainSpec == MainSpecInit /\ [][MainNext]_vars

\* one cycle of main from the eviction step on
CycleNext == MainClean \/ MainSkip \/ MainResolve \/ MainApply \/ MainCycleEnd

CycleSpecInit ==
    CycleInit /\ ParserIdle /\ ChatIdle /\ FilterIdle /\ SortIdle /\ TrySortIdle /\ RefilterIdle /\ SetupIdle

CycleSpec == CycleSpecInit /\ [][CycleNext]_vars

RefilterNext == FilterOnce \/ FilterAgain

RefilterSpecInit ==
    RefilterInit /\ ParserIdle /\ ChatIdle /\ FilterIdle /\ SortIdle
        /\ TrySortIdle /\ MainIdle /\ SetupIdle

RefilterSpec == RefilterSpecInit /\ [][RefilterNext]_vars

\* the per-conflict step of main: try_filtering, then try_sorting
JudgeNext == FilterNext \/ JudgeHandOver \/ TrySortNext

JudgeSpecInit ==
    JudgeInit /\ TrySortIdle /\ SortIdle /\ ParserIdle /\ ChatIdle /\ MainIdle /\ RefilterIdle /\ SetupIdle

JudgeSpec == JudgeSpecInit /\ [][JudgeNext]_vars

PolicyNext == LoadPolicy

PolicySpecInit ==
    /\ PolicyInit /\ OptionsIdle /\ TournamentIdle
    /\ ParserIdle /\ ChatIdle /\ FilterIdle /\ SortIdle /\ TrySortIdle /\ MainIdle /\ RefilterIdle

PolicySpec == PolicySpecInit /\ [][PolicyNext]_vars

GenerateNext == GenerateCall \/ GenerateAttempt \/ GenerateExhausted

\* one call of chat or of generate
GatewayNext == ChatNext \/ GenerateNext

GatewaySpecInit ==
    /\ GatewayInit /\ SetupIdle
    /\ ParserIdle /\ FilterIdle /\ SortIdle /\ TrySortIdle /\ MainIdle /\ RefilterIdle

GatewaySpec == GatewaySpecInit /\ [][GatewayNext]_vars

\* the options from their construction to the end of the call they are
\* handed to
OptionsNext == OptionsConstruct \/ GatewayEnter \/ GatewayNext

OptionsSpecInit ==
    /\ OptionsInit /\ PolicyIdle /\ TournamentIdle
    /\ ParserIdle /\ ChatIdle /\ FilterIdle /\ SortIdle /\ TrySortIdle /\ MainIdle /\ RefilterIdle

OptionsSpec == OptionsSpecInit /\ [][OptionsNext]_vars

TournamentNext == TournamentRun

TournamentSpecInit ==
    /\ TournamentInit /\ PolicyIdle /\ OptionsIdle
    /\ ParserIdle /\ ChatIdle /\ FilterIdle /\ SortIdle /\ TrySortIdle /\ MainIdle /\ RefilterIdle

TournamentSpec == TournamentSpecInit /\ [][TournamentNext]_vars

(***************************************************************************)
(* Claims about answer_parser.                                             *)
(***************************************************************************)
Yes == <<"y", "e", "s">>

No == <<"n", "o">>

ParserDone == p_pc \in {"returned", "raised"}

LocatedSpan == answer_pattern(RemoveNewlines(text))

\* C4: whenever answer_parser returns, the token is a member of the accepted
\* set and is the lowercased, trimmed value under "Answer" of the extracted
\* span; a call that produced a token outside the set has raised.
C4_ReturnedTokenAccepted ==
    /\ p_pc = "returned" =>
           /\ p_result.raised = "none"
           /\ p_result.answer \in valid_answers
           /\ LocatedSpan.found
           /\ p_result.answer = Strip(Lower(JsonGetAnswer(LocatedSpan.span)))
    /\ ParserDone /\ p_result.answer \notin valid_answers => p_pc = "raised"

\* C4 witness: a returned token that differs from the raw "Answer" value
C4_Witness ==
    /\ p_pc = "returned"
    /\ p_result.answer = Yes
    /\ JsonGetAnswer(LocatedSpan.span) = <<" ", "Y", "e", "S", " ">>

\* the objects {"Answer": "yes", "Explanation": "..."} of the model
YesObjects ==
    {YesObject,
     <<"{", "A:yes", "Es", "w", "}", "Ee", "}">>,
     <<"{", "A:yes", "Es", "{", "w", "Ee", "}">>}

HasNoOpen(s) == \A i \in 1..Len(s) : s[i] # "{"

HasNoClose(s) == \A i \in 1..Len(s) : s[i] # "}"

\* the ways of reading t as prose, a yes-object, prose
YesSplits(t) ==
    {d \in [pre : {SubSeq(t, 1, i) : i \in 0..Len(t)}, obj : YesObjects,
            post : {SubSeq(t, i, Len(t)) : i \in 1..(Len(t) + 1)}] :
        d.pre \o d.obj \o d.post = t}

\* C5 as stated: any text holding the yes-object amid arbitrary prose parses
\* to "yes" against the vocabulary {"yes", "no"}.
C5_AnyProseYes ==
    (ParserDone /\ valid_answers = VALID_FILTERING_ANSWERS /\ YesSplits(text) # {})
        => (p_pc = "returned" /\ p_result.answer = Yes)

\* C5 amended: the yes-object parses to "yes" when no opening bracket stands
\* in the prose before it or in its explanation, and no closing bracket
\* stands in the prose after it.
C5_BraceFreeProseYes ==
    \A d \in YesSplits(text) :
        (/\ ParserDone
         /\ valid_answers = VALID_FILTERING_ANSWERS
         /\ HasNoOpen(d.pre)
         /\ HasNoOpen(Tail(d.obj))
         /\ HasNoClose(d.post))
            => (p_pc = "returned" /\ p_result.answer = Yes)

\* C5 witness: the object whose explanation holds a closing bracket, with
\* prose on both sides, was parsed to "yes"
C5_Witness ==
    /\ p_pc = "returned"
    /\ p_result.answer = Yes
    /\ \E d \in YesSplits(text) :
           /\ d.obj = <<"{", "A:yes", "Es", "w", "}", "Ee", "}">>
           /\ d.pre = <<"}", "w">>
           /\ d.post = <<"w", "{">>

\* a "{" ... "}" span with something between and no "{" inside
HasSpan(t) ==
    \E i \in 1..Len(t), k \in 1..Len(t) :
        /\ k >= i + 2
        /\ t[i] = "{"
        /\ t[k] = "}"
        /\ \A m \in (i + 1)..(k - 1) : t[m] # "{"

\* C6: answer_parser raises InvalidAnswerError and returns nothing when the
\* text has no span (the empty text included), when the span is not JSON,
\* when the JSON has no "Answer", and when the cleaned answer is not accepted.
C6_RaisesOnEachFailure ==
    ParserDone =>
        LET failed == /\ p_pc = "raised"
                      /\ p_result.raised = "InvalidAnswerError"
                      /\ p_result.answer = None
        IN  /\ text = <<>> => failed
            /\ ~HasSpan(RemoveNewlines(text)) => failed
            /\ ~IsJsonObject(LocatedSpan.span) => failed
            /\ JsonGetAnswer(LocatedSpan.span) = None => failed
            /\ Strip(Lower(JsonGetAnswer(LocatedSpan.span))) \notin valid_answers
                   => failed

\* C6 witness: a span that is JSON and has an "Answer" outside the vocabulary
C6_Witness ==
    /\ p_pc = "raised"
    /\ p_result.raised = "InvalidAnswerError"
    /\ IsJsonObject(LocatedSpan.span)
    /\ JsonGetAnswer(LocatedSpan.span) = <<"m", "a", "y", "b", "e">>

(***************************************************************************)
(* Claims about the judge gateway.                                         *)
(***************************************************************************)
ChatDone == c_pc \in {"returned", "raised"}

RetriedFailures == {"ResponseError", "ValidationError", "TypeError", "ValueError"}

FilterDone == f_pc \in {"returned", "raised"}

\* the elements of s at the positions of I, in the order of s
SubSeqAt(s, I) ==
    LET F[i \in 0..Len(s)] ==
            IF i = 0 THEN <<>>
            ELSE IF i \in I THEN Append(F[i - 1], s[i]) ELSE F[i - 1]
    IN  F[Len(s)]

IsText(r) == r.raised = "none"

\* the normalized answer of a response of the judge, None if it has none
JudgeAnswer(r) ==
    IF IsText(r) THEN answer_parser(r.sequences[1], {Yes, No}).answer ELSE None

Parses(r) == IsText(r) /\ JudgeAnswer(r) \in {Yes, No}

AnsweredNo == {i \in 1..Len(f_responses) : JudgeAnswer(f_responses[i]) = No}

\* C1: with a judge whose answers all parse, filter_solutions returns, and
\* what it returns are the solutions whose answer normalizes to "no", in
\* input order: all of S when every answer is "no", nothing when every
\* answer is "yes".
C1_FilterKeepsExactlyNo ==
    /\ (FilterDone /\ \A i \in 1..Len(f_responses) : Parses(f_responses[i]))
           => f_pc = "returned"
    /\ f_pc = "returned" =>
           /\ Len(f_responses) = Len(f_solutions)
           /\ f_result.raised = "none"
           /\ f_result.value = SubSeqAt(f_solutions, AnsweredNo)
           /\ AnsweredNo = 1..Len(f_solutions) => f_result.value = f_solutions
           /\ AnsweredNo = {} => f_result.value = <<>>

\* C1 witness: of three solutions the judge rejected the middle one only
C1_Witness ==
    /\ f_pc = "returned"
    /\ Len(f_solutions) = 3
    /\ f_solutions[1] = f_solutions[3]
    /\ f_solutions[1] # f_solutions[2]
    /\ AnsweredNo = {1, 3}
    /\ f_result.value = <<f_solutions[1], f_solutions[3]>>

\* C2: a judge text that does not parse ends filter_solutions with
\* InvalidAnswerError: it is the last request made, the solution was asked
\* about once, and no list is returned.
C2_InvalidAnswerPropagates ==
    /\ Len(f_responses) <= Len(f_solutions)
    /\ Len(f_responses) \in {f_done, f_done + 1}
    /\ \A i \in 1..Len(f_responses) :
           (IsText(f_responses[i]) /\ ~Parses(f_responses[i])) =>
               /\ i = Len(f_responses)
               /\ f_done = i - 1
               /\ Len(keep_mask) = i - 1
               /\ f_pc = "raised"
               /\ f_result = Raised("InvalidAnswerError")

\* C2 witness: the second of three solutions got the empty text of the
\* exhausted gateway, after a first one that was kept
C2_Witness ==
    /\ f_pc = "raised"
    /\ Len(f_solutions) = 3
    /\ Len(f_responses) = 2
    /\ f_responses[2] = ChatReturn(<<>>)
    /\ valid_solutions = <<f_solutions[1]>>
    /\ f_result.raised = "InvalidAnswerError"

SortDone == s_pc \in {"returned", "raised"}

N == Len(s_input)

\* no call of llm.chat raised: every request got a text
EveryRequestAnswered ==
    s_result.raised \notin (ClientExceptions \ RetriedFailures)

\* C8 as stated: on n >= 1 candidates at most n-1 judge requests are made,
\* and exactly one when n = 2.
C8_AtMostNMinusOneRequests ==
    /\ N >= 1 => s_requests <= N - 1
    /\ (SortDone /\ N = 2) => s_requests = 1

\* C8 amended: on n >= 1 candidates at most n-1 requests get an answer that
\* parses, every other request is one whose answer did not parse; with n = 2
\* and a first answer that parses exactly one request is made.
C8_AtMostNMinusOneParsed ==
    /\ N >= 1 => s_parsed <= N - 1
    /\ EveryRequestAnswered => s_requests = s_parsed + failed_attempts
    /\ (SortDone /\ N = 2 /\ failed_attempts = 0 /\ EveryRequestAnswered)
           => (s_requests = 1 /\ s_pc = "returned")

\* C8 witness: three candidates, two parsed comparisons, one request more
C8_Witness ==
    /\ s_pc = "returned"
    /\ N = 3
    /\ s_parsed = 2
    /\ s_requests = 3

\* C9 as stated: sorting fails with SortingFailureError only when one
\* comparison had more than 3 unparseable answers of its own.
C9_BudgetPerComparison ==
    s_result.raised = "SortingFailureError" => cmp_failed > 3

\* C10 (safety part): when every request is answered, at most n+2 requests
\* are made and the call ends with one candidate or SortingFailureError; a
\* judge that only returns the empty text gets 4 requests and the error.
C10_Bounded ==
    (N >= 2 /\ EveryRequestAnswered) =>
        /\ s_requests <= N + 2
        /\ s_pc = "returned" =>
               (s_result.raised = "none"
                /\ \E i \in 1..N : s_result.value = s_input[i])
        /\ s_pc = "raised" => s_result.raised = "SortingFailureError"
        /\ (SortDone /\ ~s_nonempty) =>
               (s_result.raised = "SortingFailureError" /\ s_requests = 4)

\* C10: for every sequence of judge responses get_best_solution on n >= 2
\* candidates terminates, within the bounds of C10_Bounded.
C10_Terminates ==
    /\ []C10_Bounded
    /\ (s_pc = "called") ~> SortDone

\* C10 witness: n+2 requests were made before the call ended
C10_Witness ==
    /\ SortDone
    /\ N = 3
    /\ s_requests = N + 2
    /\ EveryRequestAnswered

(***************************************************************************)
(* Claims about get_best_solution on short lists and under a constant      *)
(* judge.                                                                  *)
(***************************************************************************)
\* C11: a list of no or one solution never reaches the judge: the empty list
\* raises Exception at once, the one-element list returns its element, both
\* with zero requests and without entering the loop.
C11_DegenerateInputsSkipJudge ==
    N <= 1 =>
        /\ s_requests = 0
        /\ s_pc # "loop"
        /\ SortDone =>
               IF N = 0
               THEN s_pc = "raised" /\ s_result = Raised("Exception")
               ELSE s_pc = "returned" /\ s_result = Result(s_input[1])

C11_Witness ==
    /\ N = 1
    /\ s_pc = "returned"
    /\ s_result = Result(s_input[1])
    /\ s_requests = 0

\* C12: when every answer of the judge is "solution 1", in any letter case,
\* get_best_solution returns the solution supplied first, for every n >= 1.
C12_ConstantFirstReturnsFirst ==
    (SortDone /\ s_all_first /\ N >= 1) =>
        /\ s_pc = "returned"
        /\ s_result = Result(s_input[1])
        /\ s_requests = N - 1

C12_Witness ==
    /\ s_pc = "returned"
    /\ s_all_first
    /\ N = MaxSolutions
    /\ s_requests = N - 1
    /\ s_input[1] # s_input[N]
    /\ s_result = Result(s_input[1])

(***************************************************************************)
(* Claims about try_sorting and the per-conflict step of main.             *)
(***************************************************************************)
\* C13: try_sorting always returns an element of the list it was given: the
\* value of get_best_solution when that call returns, and the candidate
\* drawn beforehand when it raises whatever exception.
C13_ReturnsAnElement ==
    /\ ts_pc # "raised"
    /\ ts_pc = "returned" =>
           /\ best_solution \in Elems(ts_solutions)
           /\ s_result.raised = "none" => best_solution = s_result.value

C13_Witness ==
    /\ ts_pc = "returned"
    /\ s_result.raised # "none"
    /\ Len(ts_solutions) = MaxSolutions
    /\ best_solution = ts_solutions[2]
    /\ best_solution \notin {ts_solutions[1], Last(ts_solutions)}

FirstCommandTime(dict, rc) == DictGet(dict, rc).commands[1].time

\* the eviction step of this cycle is over, normally or by an exception
CleanOver == m_pc \in {"foreach", "judging", "head", "ended", "crashed"}

\* the eviction step of this cycle has just returned
CleanReturned == m_pc = "foreach" /\ m_idx = 1

\* tracked when the cycle began and detected again in this cycle
Redetected == {rc \in Elems(tracked_before.list) : In(rc, conf_list)}

PastGrace(rc) == Stale(simt, FirstCommandTime(tracked_before.dict, rc))

Evicted(rc) == ~In(rc, conflicts_under_resolution)

\* C15: a conflict that was tracked when the cycle began, is detected again
\* and is not past its grace stays in the tracker through the eviction step
\* and is not handed to the solver in this cycle, whatever happens to the
\* other tracked conflicts.
C15_ValidConflictUntouched ==
    CleanOver =>
        \A rc \in Redetected :
            (DictHas(tracked_before.dict, rc) /\ ~PastGrace(rc)) =>
                /\ ~Evicted(rc)
                /\ \A h \in handled : ~ConflictEq(h, rc)

\* C16: once clean_conflicts_under_resolution has returned, every conflict
\* still tracked is in the detected list and within its grace, also when
\* several conflicts had to go in the same cycle.
C16_OnlyValidConflictsRemain ==
    CleanReturned =>
        \A i \in 1..Len(conflicts_under_resolution) :
            LET rc == conflicts_under_resolution[i]
            IN  /\ In(rc, conf_list)
                /\ DictHas(conflicts_under_resolution_solution, rc)
                /\ ~Stale(simt, FirstCommandTime(conflicts_under_resolution_solution, rc))

\* C17: a tracked conflict that is detected again is evicted if and only if
\* the time is over the time of its first command plus 20: with 100 as that
\* time it is evicted at 125 and kept at 115 and at 120.
C17_EvictedIffPastGrace ==
    (CleanReturned \/ m_pc = "crashed") =>
        \A rc \in Redetected :
            DictHas(tracked_before.dict, rc) =>
                /\ Evicted(rc) <=> PastGrace(rc)
                /\ FirstCommandTime(tracked_before.dict, rc) = 100 =>
                       /\ simt = 125 => Evicted(rc)
                       /\ simt \in {115, 120} => ~Evicted(rc)

\* the same, when the conflict is the only one tracked
C17_AloneEvictedIffPastGrace ==
    (CleanReturned /\ Len(tracked_before.list) = 1) => C17_EvictedIffPastGrace

C19_FilterIdempotent ==
    i_pc = "twice" =>
        /\ i_second.raised = "none"
        /\ i_second.value = i_first.value

C19_Witness ==
    /\ i_pc = "twice"
    /\ i_second = i_first
    /\ Len(i_first.value) = 2
    /\ Len(i_solutions) = MaxSolutions
    /\ i_first.value[1] = i_solutions[2]

(***************************************************************************)
(* Claim about the signal handler.                                         *)
(***************************************************************************)
Stopped == ~run

MainOver == m_pc \in {"ended", "crashed"}

\* the handler changes the run flag and nothing else of the program
SignalOnlyClearsRun ==
    (run /\ ~run') =>
        UNCHANGED <<sim_state, simt, conf_list, trackerVars, m_pc, m_idx,
                    m_solutions, stack, m_error>>

\* once the flag is cleared the simulation is not updated and no detection
\* is read again; from the test of the loop main can only leave
NoNewCycle ==
    Stopped =>
        /\ simt' = simt
        /\ conf_list' = conf_list
        /\ m_pc = "head" => m_pc' \in {"head", "ended"}

\* a cleared flag takes no step away from the cycle in progress
CycleGoesOn ==
    (Stopped /\ m_pc \in {"clean", "foreach", "judging"}) => ENABLED CycleNext

\* main has left the loop after a signal: every conflict of the last
\* detection is tracked, so the for loop went through all of them
LastCycleComplete ==
    (Stopped /\ m_pc = "ended") =>
        \A i \in 1..Len(conf_list) : In(conf_list[i], conflicts_under_resolution)

\* how far main is in its cycle: the eviction step, then two steps at most
\* per detected conflict, then the test of the loop, then the end
Rank ==
    CASE m_pc = "clean"   -> 0
      [] m_pc = "foreach" -> 2 * m_idx
      [] m_pc = "judging" -> 2 * m_idx + 1
      [] m_pc = "head"    -> 2 * Len(conf_list) + 3
      [] OTHER            -> 2 * Len(conf_list) + 4

\* with the flag cleared every step brings main nearer to its end
StepsTowardsEnd == Stopped => Rank' > Rank

\* with the flag cleared main has a step to take until it is over
NeverStuck == (Stopped /\ ~MainOver) => ENABLED MainNext

\* C20: SIGINT or SIGTERM only clears the run flag: the cycle in progress,
\* with the judging under way and the conflicts still to come, runs to its
\* end, main then leaves the loop, and no new cycle starts.
C20_SignalEndsAfterCycle ==
    /\ [][SignalOnlyClearsRun]_vars
    /\ [][NoNewCycle]_vars
    /\ [][StepsTowardsEnd]_vars
    /\ [](CycleGoesOn /\ NeverStuck /\ LastCycleComplete)

C20_Witness ==
    /\ m_pc = "ended"
    /\ stopped_at = "judging"
    /\ m_error = "none"
    /\ Len(conf_list) = Cardinality(Pairs)
    /\ Cardinality(handled) = Len(conf_list)

(***************************************************************************)
(* The load of the policy.                                                 *)
(***************************************************************************)
\* the source has no member of that name
Lacks(data, key) ==
    data.kind = "object" /\ \A i \in 1..Len(data.members) : data.members[i].key # key

\* a rule entry is an object of one pair, in an array
MalformedList(value) ==
    \/ value.kind # "array"
    \/ \E i \in 1..Len(value.items) :
           value.items[i].kind # "object" \/ Len(value.items[i].pairs) # 1

Malformed(data) ==
    /\ data.kind = "object"
    /\ \E i \in 1..Len(data.members) :
           /\ data.members[i].key \in {"FILTERING_RULES", "SORTING_RULES"}
           /\ MalformedList(data.members[i].value)

PolicyLoaded == pol_pc \in {"built", "raised"}

\* C21: the load of a source that lacks FILTERING_RULES or SORTING_RULES, or
\* that has a malformed rule entry, fails: it yields no policy
C21_IncompleteSourceFails ==
    PolicyLoaded
        /\ (\/ Lacks(pol_data, "FILTERING_RULES")
            \/ Lacks(pol_data, "SORTING_RULES")
            \/ Malformed(pol_data))
        => pol_result.raised # "none"

\* a source that lacks one of the two lists always yields a policy, with the
\* list empty, unless an entry of the other list makes the load raise
PolicyOfLackingSource ==
    PolicyLoaded /\ pol_result.raised = "none"
        => /\ Lacks(pol_data, "FILTERING_RULES") => pol_result.filtering_rules = <<>>
           /\ Lacks(pol_data, "SORTING_RULES") => pol_result.sorting_rules = <<>>

(***************************************************************************)
(* The options of the judge requests.                                      *)
(***************************************************************************)
\* a request has gone to the client
RequestSent == Len(c_outcomes) > 0

\* a key outside ollama.Options.__annotations__
HasUnknownKey(kwargs) ==
    \E i \in 1..Len(kwargs) : Annotation(kwargs[i].key) = "None"

GatewayEntered == c_pc \notin {"idle", "called", "g_called"}

\* C22: no request goes to the judge with options that were not validated:
\* the construction of OllamaOptions with a key outside the closed set raises
\* and gives no object, a request is only ever sent with an object whose
\* fields are all known and of the type of the field, and chat and generate
\* called with anything else than an OllamaOptions end on the assertion
\* before any request
C22_NoRequestWithUnvalidatedOptions ==
    /\ o_given = "OllamaOptions" /\ o_pc # "called" /\ HasUnknownKey(o_kwargs)
           => o_result = OptionsRaise("KeyError") /\ o_pc = "raised"
    /\ RequestSent
           => /\ o_given = "OllamaOptions"
              /\ o_result.built
              /\ Len(o_result.fields) = Len(o_kwargs)
              /\ \A i \in 1..Len(o_result.fields) :
                     /\ o_result.fields[i].key = o_kwargs[i].key
                     /\ Annotation(o_kwargs[i].key) # "None"
                     /\ Validates(Annotation(o_kwargs[i].key), o_result.fields[i].value)
    /\ o_given = "dict" /\ GatewayEntered
           => /\ c_pc \in {"raised", "g_raised"}
              /\ c_result = ChatRaise("AssertionError")
              /\ ~RequestSent

\* a known key followed by an unknown one: no object
C22_Witness ==
    /\ o_pc = "raised"
    /\ o_result = OptionsRaise("KeyError")
    /\ Len(o_kwargs) = 2
    /\ Annotation(o_kwargs[1].key) # "None"
    /\ c_pc = "idle"

(***************************************************************************)
(* The slice of get_best_solution.                                         *)
(***************************************************************************)
\* solutions is input[lo..hi] for some lo, hi
IsSliceOf(solutions, input) ==
    \E lo \in 1..(Len(input) + 1) :
        \E hi \in (lo - 1)..Len(input) : solutions = SubSeq(input, lo, hi)

\* the candidates left are a slice of the input, and what is returned is one
\* of the input
SliceOfInput ==
    /\ IsSliceOf(s_solutions, s_input)
    /\ Len(s_solutions) = Len(s_input) - s_parsed
    /\ s_pc = "returned" => s_result.value \in Elems(s_input)

\* one iteration: the first and the last of the slice are compared; a parsed
\* answer removes the last ("solution 1") or the first ("solution 2"), and
\* nothing is removed without one
ComparisonStep ==
    s_pc = "loop" /\ s_requests' = s_requests + 1
        => /\ s_compared' = <<s_solutions[1], s_solutions[Len(s_solutions)]>>
           /\ IF s_parsed' = s_parsed + 1
              THEN /\ s_preference' \in VALID_SORTING_ANSWERS
                   /\ s_preference' = Solution1
                          => s_solutions' = SubSeq(s_solutions, 1, Len(s_solutions) - 1)
                   /\ s_preference' # Solution1
                          => s_solutions' = SubSeq(s_solutions, 2, Len(s_solutions))
              ELSE /\ s_parsed' = s_parsed
                   /\ s_preference' = <<>>
                   /\ s_solutions' = s_solutions

\* C23: at every iteration the candidates left are a contiguous slice of the
\* input in its order; a parsed comparison is between the first and the
\* last of the slice and removes exactly one of them, the last on
\* "solution 1" and the first on "solution 2"; an answer that does not parse
\* removes none; the solution returned is an element of the input
C23_SliceShrinksByOne == [](SliceOfInput) /\ [][ComparisonStep]_vars

\* three solutions, the middle one is returned after the first and the last
\* were removed
C23_Witness ==
    /\ s_pc = "returned"
    /\ Len(s_input) = 3
    /\ s_input[1] # s_input[2] /\ s_input[2] # s_input[3] /\ s_input[1] # s_input[3]
    /\ s_parsed = 2
    /\ s_result.value = s_input[2]
    /\ s_preference = Solution1

(***************************************************************************)
(* The tournament under a judge that answers by what it is shown.          *)
(***************************************************************************)
BothReturned == t_pc = "returned" /\ Len(t_result) = 2

\* C24: the solution the tournament returns can depend on the order of the
\* input: for the solutions at hand, when they are two or more, there are a
\* judge that gives the same answer whenever it is shown the same two
\* solutions in the same places, and another ordering of the same solutions,
\* for which get_best_solution returns a different solution
C24_ResultDependsOnOrder ==
    Len(t_solutions[1]) >= 2
        => \E judge \in ParsedJudges :
               \E second \in Orderings(t_solutions[1]) :
                   BestSolution(judge, t_solutions[1]) # BestSolution(judge, second)

\* such a judge and two such orderings, after both calls
C24_Witness ==
    /\ BothReturned
    /\ Elems(t_solutions[1]) = Elems(t_solutions[2])
    /\ t_result[1] # t_result[2]

\* the judge prefers the solution of the higher rank, wherever it is shown
Follows(judge, rank, solutions) ==
    \A p \in Shown :
        p[1] \in Elems(solutions) /\ p[2] \in Elems(solutions)
            => LET parsed == answer_parser(judge[p], VALID_SORTING_ANSWERS)
               IN  /\ parsed.raised = "none"
                   /\ parsed.answer = Solution1 <=> rank[p[1]] > rank[p[2]]

\* the strict total orders on the solutions
Rankings ==
    {r \in [SolutionIds -> 1..Cardinality(SolutionIds)] :
        \A a, b \in SolutionIds : r[a] = r[b] => a = b}

\* the solution of the highest rank in the list
Highest(rank, solutions) ==
    CHOOSE a \in Elems(solutions) : \A b \in Elems(solutions) : rank[b] <= rank[a]

\* C29: under a judge whose answers all parse and follow one strict total
\* order of the solutions, get_best_solution returns the solution of the
\* highest rank, for every ordering of the input
C29_ConsistentJudgeFindsHighest ==
    \A rank \in Rankings :
        Follows(t_judge, rank, t_solutions[1])
            => \A i \in 1..Len(t_result) : t_result[i] = Highest(rank, t_solutions[1])

\* three solutions in two different orders, the best in the middle of the
\* first one, both calls over
C29_Witness ==
    /\ BothReturned
    /\ Len(t_solutions[1]) = 3
    /\ t_solutions[1] # t_solutions[2]
    /\ \E rank \in Rankings :
           /\ Follows(t_judge, rank, t_solutions[1])
           /\ t_solutions[1][2] = Highest(rank, t_solutions[1])
           /\ t_result = <<t_solutions[1][2], t_solutions[1][2]>>

(***************************************************************************)
(* The delays between the attempts of chat.                                *)
(***************************************************************************)
\* the attempts so far that ended on an exception of the except clause
CaughtFailures == {i \in 1..Len(c_outcomes) : c_outcomes[i].exc \in CaughtByChat}

\* C25: after its k-th failed attempt (k = 0..4) chat sleeps min(0.1 + k, 5)
\* seconds, that is 0.1, 1.1, 2.1, 3.1 and 4.1: the step is constant, the
\* cap of 5 seconds is never gone over, and there is a sleep after every
\* failed attempt, the last one included (delays in tenths of a second)
C25_DelaysGrowByOneSecond ==
    /\ Len(c_sleeps) = Cardinality(CaughtFailures)
    /\ Len(c_sleeps) <= N_RETRIES
    /\ \A k \in 0..(Len(c_sleeps) - 1) :
           /\ c_sleeps[k + 1] = 1 + 10 * k
           /\ c_sleeps[k + 1] <= 50
    /\ c_warned => c_sleeps = <<1, 11, 21, 31, 41>>

\* five failed attempts, five sleeps, then the warning
C25_Witness ==
    /\ c_pc = "returned"
    /\ c_warned
    /\ Len(c_outcomes) = N_RETRIES
    /\ c_sleeps = <<1, 11, 21, 31, 41>>
    /\ c_result = ChatReturn(EmptyText)

(***************************************************************************)
(* The exceptions the gateway does not catch.                              *)
(***************************************************************************)
InGenerate == c_pc \in {"g_called", "g_loop", "g_returned", "g_raised"}

\* the exceptions after which the function at hand goes on
Retried ==
    IF InGenerate THEN {"ResponseError"}
    ELSE {"ResponseError", "ValidationError", "TypeError", "ValueError"}

LinesOf(solution) == Schedule(solution.callsign, solution.commands)

\* one step of main: the lines the stack has are never taken back, the
\* eviction step adds none, and the per-conflict step adds the lines of the
\* solution it has just recorded for the conflict
StackStep ==
    /\ Len(stack') >= Len(stack)
    /\ SubSeq(stack', 1, Len(stack)) = stack
    /\ m_pc = "clean" => stack' = stack
    /\ m_pc = "judging" /\ m_pc' = "foreach"
           => LET best == DictGet(conflicts_under_resolution_solution', conf_list[m_idx])
              IN  /\ best \in Elems(m_solutions)
                  /\ stack' = stack \o LinesOf(best)

\* tracked when the cycle began, detected again and past its grace
StaleAtCycleStart ==
    {rc \in Redetected : DictHas(tracked_before.dict, rc) /\ PastGrace(rc)}

\* C26: the eviction of a tracked conflict, resolved or stale, leaves the
\* commands already scheduled untouched, and when a stale conflict is
\* processed again the commands of the solution newly chosen are scheduled
\* in addition to them
C26_ScheduledCommandsStay ==
    /\ [][StackStep]_vars
    /\ [](\A rc \in StaleAtCycleStart :
              m_pc = "head" /\ m_error = "none"
                  => \E h \in handled :
                         LET old == LinesOf(DictGet(tracked_before.dict, rc))
                             new == LinesOf(DictGet(conflicts_under_resolution_solution, h))
                         IN  /\ ConflictEq(h, rc)
                             /\ SubSeq(stack, 1, Len(old)) = old
                             /\ \E i \in (Len(old) + 1)..Len(stack) :
                                    SubSeq(stack, i, i + Len(new) - 1) = new)

\* the tracked conflict was stale, was evicted and resolved again: the stack
\* has the lines of both solutions
C26_Witness ==
    /\ m_pc = "head"
    /\ m_error = "none"
    /\ simt = StartTime + EXECUTION_DELAY + GRACE + 5
    /\ \E rc \in StaleAtCycleStart :
           /\ \E h \in handled :
                  /\ ConflictEq(h, rc)
                  /\ FirstCommandTime(conflicts_under_resolution_solution, h)
                         = simt + EXECUTION_DELAY
           /\ Len(stack) >= Len(LinesOf(DictGet(tracked_before.dict, rc))) + 2

(***************************************************************************)
(* The tracker list against the map.                                       *)
(***************************************************************************)
NoDuplicates(list) ==
    \A i, j \in 1..Len(list) : ConflictEq(list[i], list[j]) => i = j

\* the conflicts of the list are the keys of the map
SameConflicts(list, dict) ==
    /\ \A i \in 1..Len(list) : DictHas(dict, list[i])
    /\ \A e \in dict : In(e.key, list)

\* C27: after every eviction step and after every per-conflict step the
\* tracker list has no duplicates and its conflicts are exactly the keys of
\* the conflict-to-solution map
C27_ListMatchesMap ==
    m_pc = "foreach"
        => /\ NoDuplicates(conflicts_under_resolution)
           /\ SameConflicts(conflicts_under_resolution,
                            conflicts_under_resolution_solution)

\* C28: clean_conflicts_under_resolution raises nothing, whatever the
\* tracker and the detected list are, also when two or more conflicts go in
\* one cycle and in the cycles after
C28_CleanNeverRaises ==
    m_pc # "crashed" /\ m_error = "none"

====
